---------------------------- MODULE Spec2Model ----------------------------
(***************************************************************************)
(* Model of the Salesforce automation framework:                           *)
(*   - SalesforceUtils      (tests/utils/salesforce-utils.ts): the UI      *)
(*     driver over a Playwright page;                                      *)
(*   - SalesforceApiUtils   (tests/utils/salesforce-api.ts, two revisions: *)
(*     the SF CLI one and the SOAP one): credential acquisition, frontdoor *)
(*     login, login as another user over the shared config object.         *)
(*                                                                         *)
(* A driver operation is sequential code over an uncontrolled page.  It is *)
(* modelled as one action whose inputs are the outcomes of the Playwright  *)
(* calls it makes (visibility probes, clicks, waits) and whose outputs are *)
(* the result (returned value or raised error) and the log of the calls it *)
(* made on the page, in order.                                             *)
(***************************************************************************)
EXTENDS Integers, Sequences, FiniteSets, TLC

VARIABLES
    \* ---- UI driver (SalesforceUtils), one page ----
    dpc,        \* "idle": no operation in progress; "done": one has finished
    dop,        \* name of the operation that finished
    denv,       \* the page behaviour the operation met (its inputs)
    dlog,       \* the Playwright calls the operation made, in order
    dres,       \* [status |-> "ok" | "error", value |-> returned value / error]
    url,        \* page.url(), a sequence of characters
    \* ---- API utilities (SalesforceApiUtils), one instance per page ----
    variant,    \* the revision of salesforce-api.ts: "cli" or "soap"
    config,     \* config.salesforce, the module-level object all instances share
    inst,       \* per page: the instance fields accessToken and instanceUrl
    call,       \* per page: the call in progress on the instance, and its record
    \* ---- the Salesforce org behind the REST API ----
    org         \* its Account records, and the record of the calls made on them

dvars == << dpc, dop, denv, dlog, dres, url >>

svars == << variant, config, inst, call >>

vars == << dpc, dop, denv, dlog, dres, url, variant, config, inst, call, org >>

-----------------------------------------------------------------------------
(* Results and log entries *)

Ok(v)    == [status |-> "ok", value |-> v]
Err(e)   == [status |-> "error", value |-> e]

Ev(name, n, out) == [ev |-> name, n |-> n, out |-> out]

\* A boolean result, as the value of a result record.
Bool(b) == IF b THEN "true" ELSE "false"

NoEnv == [none |-> TRUE]

-----------------------------------------------------------------------------
(* getCurrentRecordId: url.match(/\/([a-zA-Z0-9]{15,18})\//)               *)

MinIdLen == 15
MaxIdLen == 18

AlnumChars ==
    { "a","b","c","d","e","f","g","h","i","j","k","l","m",
      "n","o","p","q","r","s","t","u","v","w","x","y","z",
      "A","B","C","D","E","F","G","H","I","J","K","L","M",
      "N","O","P","Q","R","S","T","U","V","W","X","Y","Z",
      "0","1","2","3","4","5","6","7","8","9" }

IsAlnum(c) == c \in AlnumChars

\* The regular expression matches at position i with a capture of n
\* characters: "/" at i, n alphanumerics, "/" right after them.
MatchAt(s, i, n) ==
    /\ i >= 1
    /\ i + n + 1 <= Len(s)
    /\ s[i] = "/"
    /\ \A j \in 1..n : IsAlnum(s[i + j])
    /\ s[i + n + 1] = "/"

\* The same expression without its leading "\/" (a capture may then start
\* in the middle of a longer segment).
MatchAtNoLead(s, i, n) ==
    /\ i >= 0
    /\ i + n + 1 <= Len(s)
    /\ \A j \in 1..n : IsAlnum(s[i + j])
    /\ s[i + n + 1] = "/"

MatchPositions(s) ==
    { i \in 1..Len(s) : \E n \in MinIdLen..MaxIdLen : MatchAt(s, i, n) }

Min(S) == CHOOSE x \in S : \A y \in S : x <= y

GetCurrentRecordIdNoLead(s) ==
    LET P == { i \in 0..Len(s) : \E n \in MinIdLen..MaxIdLen : MatchAtNoLead(s, i, n) }
    IN  IF P = {} THEN << >>
        ELSE LET i == Min(P)
                 n == CHOOSE m \in MinIdLen..MaxIdLen :
                        /\ MatchAtNoLead(s, i, m)
                        /\ \A k \in MinIdLen..MaxIdLen : MatchAtNoLead(s, i, k) => k <= m
             IN  SubSeq(s, i + 1, i + n)

\* match ? match[1] : ''  -- the leftmost match; the capture is greedy.
GetCurrentRecordId(s) ==
    LET P == MatchPositions(s)
    IN  IF P = {} THEN << >>
        ELSE LET i == Min(P)
                 n == CHOOSE m \in MinIdLen..MaxIdLen :
                        /\ MatchAt(s, i, m)
                        /\ \A k \in MinIdLen..MaxIdLen : MatchAt(s, i, k) => k <= m
             IN  SubSeq(s, i + 1, i + n)

(* URLs of the page: the origin followed by path segments. *)

MaxSegs  == 2      \* path segments in a URL
ShortLen == 4      \* length of an ordinary (short) path segment

Origin == << "h","t","t","p","s",":","/","/","s","f",".","c","o","m" >>

SegLens == { ShortLen, MinIdLen - 1, MinIdLen, MaxIdLen, MaxIdLen + 1 }

SegLetter(k) == IF k % 2 = 1 THEN "a" ELSE "B"

\* Segment number k of the path: len characters, all alphanumeric, or with
\* one non-alphanumeric character in it.
Seg(k, len, alnum) ==
    [ j \in 1..len |-> IF ~alnum /\ j = 2 THEN "-" ELSE SegLetter(k) ]

SegSpecs == [ len : SegLens, alnum : BOOLEAN ]

RECURSIVE PathOf(_, _)
PathOf(specs, k) ==
    IF k > Len(specs) THEN << >>
    ELSE << "/" >> \o Seg(k, specs[k].len, specs[k].alnum) \o PathOf(specs, k + 1)

MkUrl(specs, trailing) ==
    Origin \o PathOf(specs, 1) \o (IF trailing THEN << "/" >> ELSE << >>)

Urls ==
    { MkUrl(specs, t) :
        specs \in UNION { [1..n -> SegSpecs] : n \in 1..MaxSegs }, t \in BOOLEAN }

\* The pieces of s between slashes, computed independently of the matcher.
RECURSIVE SplitFrom(_, _, _)
SplitFrom(s, i, cur) ==
    IF i > Len(s) THEN { cur }
    ELSE IF s[i] = "/" THEN { cur } \cup SplitFrom(s, i + 1, << >>)
    ELSE SplitFrom(s, i + 1, Append(cur, s[i]))

Segments(s) == SplitFrom(s, 1, << >>)

IsIdShaped(seg) ==
    /\ Len(seg) >= MinIdLen
    /\ Len(seg) <= MaxIdLen
    /\ \A j \in 1..Len(seg) : IsAlnum(seg[j])

IdSegments(s) == { seg \in Segments(s) : IsIdShaped(seg) }

-----------------------------------------------------------------------------
(* Outcomes of the Playwright calls a driver operation makes *)

NumSpinnerSelectors == 6
MaxStuck  == 1     \* loading indicators that never disappear, per operation
MaxFaults == 1     \* visibility probes that fail (reject), per operation

\* The loading indicators that stay visible for the whole spinner timeout.
SpinnerCases ==
    { S \in SUBSET (1..NumSpinnerSelectors) : Cardinality(S) <= MaxStuck }

\* locator.isVisible(): the element is visible, is not, or the probe rejects.
ProbeOutcomes == { "visible", "hidden", "error" }

ProbeVectors(n) ==
    { v \in [1..n -> ProbeOutcomes] :
        Cardinality({ i \in 1..n : v[i] = "error" }) <= MaxFaults }

\* isVisible(...).catch(() => false)
IsVisibleCaught(o) == o = "visible"

FirstVisible(v) ==
    LET V == { i \in 1..Len(v) : IsVisibleCaught(v[i]) }
    IN  IF V = {} THEN 0 ELSE Min(V)

\* The probes a first-match loop makes: selector 1 up to the first visible one.
ProbeLog(v) ==
    LET k == FirstVisible(v)
        n == IF k = 0 THEN Len(v) ELSE k
    IN  [ i \in 1..n |-> Ev("isVisible", i, v[i]) ]

\* waitForSpinners: one waitFor({state: 'hidden'}) per selector, in order,
\* each with its rejection swallowed.  It never raises.
WaitForSpinners(stuck) ==
    [ i \in 1..NumSpinnerSelectors |->
        Ev("spinnerWait", i, IF i \in stuck THEN "timeout" ELSE "hidden") ]

-----------------------------------------------------------------------------
(* waitForPageLoad *)

\* waitForLoadState / waitFor outcomes: the state is reached, or the wait
\* ends at its timeout.
DomOutcomes     == { "loaded", "timeout" }
NetOutcomes     == { "idle", "timeout" }
ContentOutcomes == { "visible", "timeout" }

\* A variant that clears the spinners before the network has settled.
WaitForPageLoadSpinnersFirst(dom, net, stuck, content) ==
    IF dom = "timeout"
    THEN [ log |-> << Ev("domcontentloaded", 0, dom) >>, res |-> Err("Timeout") ]
    ELSE [ log |-> << Ev("domcontentloaded", 0, dom) >>
                   \o WaitForSpinners(stuck)
                   \o << Ev("networkidle", 0, net), Ev("contentWait", 0, content) >>,
           res |-> Ok("") ]

\* A variant whose wait for network idle is not guarded by .catch().
WaitForPageLoadNetFatal(dom, net, stuck, content) ==
    IF dom = "timeout"
    THEN [ log |-> << Ev("domcontentloaded", 0, dom) >>, res |-> Err("Timeout") ]
    ELSE IF net = "timeout"
    THEN [ log |-> << Ev("domcontentloaded", 0, dom), Ev("networkidle", 0, net) >>,
           res |-> Err("Timeout") ]
    ELSE [ log |-> << Ev("domcontentloaded", 0, dom), Ev("networkidle", 0, net) >>
                   \o WaitForSpinners(stuck)
                   \o << Ev("contentWait", 0, content) >>,
           res |-> Ok("") ]

\* waitForPageLoad: wait for domcontentloaded (a timeout propagates), for
\* networkidle (rejection swallowed), for the spinners, for the main content
\* area (rejection swallowed).
WaitForPageLoad(dom, net, stuck, content) ==
    IF dom = "timeout"
    THEN [ log |-> << Ev("domcontentloaded", 0, dom) >>, res |-> Err("Timeout") ]
    ELSE [ log |-> << Ev("domcontentloaded", 0, dom), Ev("networkidle", 0, net) >>
                   \o WaitForSpinners(stuck)
                   \o << Ev("contentWait", 0, content) >>,
           res |-> Ok("") ]

\* The page behaviours a waitForPageLoad call can meet.
PageLoadEnvs ==
    { e \in [ dom : DomOutcomes, net : NetOutcomes, stuck : SpinnerCases,
              content : ContentOutcomes ] :
        e.dom = "timeout" => (e.net = "idle" /\ e.stuck = {} /\ e.content = "visible") }

-----------------------------------------------------------------------------
(* getFieldValue, clickNewButton, saveRecord *)

\* textContent() of an element: the call rejects (no such element within
\* the timeout), or yields null, or the text.
MessageOutcomes == { "<timeout>", "<null>", "Record saved", "Save failed" }

\* (await textContent()) || ''
TextOrEmpty(t) == IF t = "<null>" THEN "" ELSE t

NumValueSelectors == 7

\* A variant that returns the empty string when no selector has a visible
\* match.
GetFieldValueEmptyDefault(stuck, vis, text) ==
    LET k == FirstVisible(vis)
    IN  IF k = 0
        THEN [ log |-> WaitForSpinners(stuck) \o ProbeLog(vis), res |-> Ok("") ]
        ELSE IF text = "<timeout>"
        THEN [ log |-> WaitForSpinners(stuck) \o ProbeLog(vis)
                       \o << Ev("textContent", k, "timeout") >>,
               res |-> Err("Timeout") ]
        ELSE [ log |-> WaitForSpinners(stuck) \o ProbeLog(vis)
                       \o << Ev("textContent", k, "ok") >>,
               res |-> Ok(TextOrEmpty(text)) ]

\* getFieldValue: the spinners, the selector loop, textContent() of the
\* first visible element; the not-found error when none is visible.
GetFieldValue(stuck, vis, text) ==
    LET k == FirstVisible(vis)
    IN  IF k = 0
        THEN [ log |-> WaitForSpinners(stuck) \o ProbeLog(vis),
               res |-> Err("FieldValueNotFound") ]
        ELSE IF text = "<timeout>"
        THEN [ log |-> WaitForSpinners(stuck) \o ProbeLog(vis)
                       \o << Ev("textContent", k, "timeout") >>,
               res |-> Err("Timeout") ]
        ELSE [ log |-> WaitForSpinners(stuck) \o ProbeLog(vis)
                       \o << Ev("textContent", k, "ok") >>,
               res |-> Ok(TextOrEmpty(text)) ]

\* clickNewButton: the spinners, the click on the first element of one
\* combined selector, the spinners, the wait for the modal (rejection
\* swallowed).
ClickNewButton(stuck, clickOk, modal) ==
    IF ~clickOk
    THEN [ log |-> WaitForSpinners(stuck) \o << Ev("click", 0, "timeout") >>,
           res |-> Err("Timeout") ]
    ELSE [ log |-> WaitForSpinners(stuck) \o << Ev("click", 0, "ok") >>
                   \o WaitForSpinners(stuck) \o << Ev("modalWait", 0, modal) >>,
           res |-> Ok("") ]

\* saveRecord: the spinners, the click on the Save button, the spinners.
SaveRecord(stuck, clickOk) ==
    IF ~clickOk
    THEN [ log |-> WaitForSpinners(stuck) \o << Ev("click", 0, "timeout") >>,
           res |-> Err("Timeout") ]
    ELSE [ log |-> WaitForSpinners(stuck) \o << Ev("click", 0, "ok") >>
                   \o WaitForSpinners(stuck),
           res |-> Ok("") ]

-----------------------------------------------------------------------------
(* clickButton *)

NumButtonSelectors == 5

\* A variant that returns normally when no selector matched.
ClickButtonSilent(stuck, vis, clickOk) ==
    LET k == FirstVisible(vis)
    IN  [ log |-> WaitForSpinners(stuck) \o ProbeLog(vis)
                  \o (IF k = 0 THEN << >>
                      ELSE << Ev("click", k, IF clickOk THEN "ok" ELSE "timeout") >>),
          res |-> IF k # 0 /\ ~clickOk THEN Err("Timeout") ELSE Ok("") ]

ClickButton(stuck, vis, clickOk) ==
    LET k == FirstVisible(vis)
    IN  [ log |-> WaitForSpinners(stuck) \o ProbeLog(vis)
                  \o (IF k = 0 THEN << >>
                      ELSE << Ev("click", k, IF clickOk THEN "ok" ELSE "timeout") >>
                           \o (IF clickOk THEN WaitForSpinners(stuck) ELSE << >>)),
          res |-> IF k = 0 THEN Err("ButtonNotFound")
                  ELSE IF clickOk THEN Ok("")
                  ELSE Err("Timeout") ]

-----------------------------------------------------------------------------
(* canEditRecord, isFieldEditable *)

NumEditIndicators == 3

\* A variant whose probe is not guarded by .catch(() => false).
CanEditRecordUncaught(stuck, probe) ==
    [ log |-> WaitForSpinners(stuck) \o << Ev("isVisible", 1, probe) >>,
      res |-> IF probe = "error" THEN Err("ProbeError") ELSE Ok(Bool(probe = "visible")) ]

CanEditRecord(stuck, probe) ==
    [ log |-> WaitForSpinners(stuck) \o << Ev("isVisible", 1, probe) >>,
      res |-> Ok(Bool(IsVisibleCaught(probe))) ]

IsFieldEditable(stuck, vis) ==
    [ log |-> WaitForSpinners(stuck) \o ProbeLog(vis),
      res |-> Ok(Bool(FirstVisible(vis) # 0)) ]

-----------------------------------------------------------------------------
(* fillField and its helpers *)

NumTextSelectors     == 5
NumComboboxSelectors == 4
NumLookupSelectors   == 4
FormElementSelector  == 5    \* the form-element fallback of fillCombobox

MaxOptions == 2    \* options rendered in an open dropdown
MaxResults == 2    \* results listed under a lookup

\* What a selector of fillTextInput resolves to: a visible input that can be
\* filled, nothing visible, a probe that rejects, or a visible element on
\* which clear() or fill() rejects (not editable, detached, covered).
ElemStates == { "visible", "hidden", "error", "clearFails", "fillFails" }

ElemVectors(n) ==
    { v \in [1..n -> ElemStates] :
        Cardinality({ i \in 1..n : v[i] \notin { "visible", "hidden" } }) <= MaxFaults }

ProbeOf(e) == IF e \in { "hidden", "error" } THEN e ELSE "visible"

\* The loop of fillTextInput from selector i on.  clear() and fill() are
\* inside the try block: when one rejects, the loop goes on to the next
\* selector.
RECURSIVE TextSelectorLog(_, _)
TextSelectorLog(el, i) ==
    IF i > Len(el) THEN << >>
    ELSE LET probe == Ev("isVisible", i, ProbeOf(el[i]))
         IN  CASE el[i] = "visible" ->
                    << probe, Ev("clear", i, "ok"), Ev("fill", i, "ok") >>
               [] el[i] = "clearFails" ->
                    << probe, Ev("clear", i, "timeout") >> \o TextSelectorLog(el, i + 1)
               [] el[i] = "fillFails" ->
                    << probe, Ev("clear", i, "ok"), Ev("fill", i, "timeout") >>
                        \o TextSelectorLog(el, i + 1)
               [] OTHER -> << probe >> \o TextSelectorLog(el, i + 1)

\* A variant of the selector loop that tries the first selector only.
FilledAtFirstOnly(el) == IF el[1] = "visible" THEN 1 ELSE 0

FilledAt(el) ==
    LET V == { i \in 1..Len(el) : el[i] = "visible" }
    IN  IF V = {} THEN 0 ELSE Min(V)

\* fillTextInput: the selector loop, then the fallback that clicks the label
\* and types into whatever has the focus, then the not-found error.
\* labelElement.isVisible() is not guarded: a rejection propagates.
FillTextInput(el, labelVis, labelClickOk) ==
    IF FilledAt(el) # 0
    THEN [ log |-> TextSelectorLog(el, 1), res |-> Ok("") ]
    ELSE CASE labelVis = "visible" /\ labelClickOk ->
                [ log |-> TextSelectorLog(el, 1)
                          \o << Ev("labelVisible", 0, labelVis),
                                Ev("labelClick", 0, "ok"),
                                Ev("keyboardType", 0, "ok") >>,
                  res |-> Ok("") ]
           [] labelVis = "visible" /\ ~labelClickOk ->
                [ log |-> TextSelectorLog(el, 1)
                          \o << Ev("labelVisible", 0, labelVis),
                                Ev("labelClick", 0, "timeout") >>,
                  res |-> Err("Timeout") ]
           [] labelVis = "error" ->
                [ log |-> TextSelectorLog(el, 1) \o << Ev("labelVisible", 0, labelVis) >>,
                  res |-> Err("ProbeError") ]
           [] OTHER ->
                [ log |-> TextSelectorLog(el, 1) \o << Ev("labelVisible", 0, labelVis) >>,
                  res |-> Err("FieldNotFound") ]

\* An option of the open dropdown, by its relation to the requested value:
\* "exact": its data-value or its text is the value; "superstring": its text
\* contains the value and more; "other": neither.
OptionKinds == { "exact", "superstring", "other" }

OptionLists == UNION { [1..n -> OptionKinds] : n \in 0..MaxOptions }

\* lightning-base-combobox-item[data-value="v"], [role="option"]:has-text("v")
\* .first(): the first option, in document order, that either part matches.
MatchesOptionSelector(k) == k \in { "exact", "superstring" }

FirstOption(opts) ==
    LET M == { i \in 1..Len(opts) : MatchesOptionSelector(opts[i]) }
    IN  IF M = {} THEN 0 ELSE Min(M)

\* fillCombobox: four selectors, the form-element fallback, the not-found
\* error; then open, settle, pick the option, wait for spinners.
FillCombobox(stuck, vis, formVis, openOk, opts) ==
    LET k    == FirstVisible(vis)
        box  == IF k # 0 THEN k
                ELSE IF IsVisibleCaught(formVis) THEN FormElementSelector ELSE 0
        find == ProbeLog(vis)
                \o (IF k = 0 THEN << Ev("isVisible", FormElementSelector, formVis) >>
                    ELSE << >>)
        o    == FirstOption(opts)
    IN  IF box = 0 THEN [ log |-> find, res |-> Err("FieldNotFound") ]
        ELSE IF ~openOk
        THEN [ log |-> find \o << Ev("openDropdown", box, "timeout") >>,
               res |-> Err("Timeout") ]
        ELSE IF o = 0
        THEN [ log |-> find \o << Ev("openDropdown", box, "ok"),
                                  Ev("waitForTimeout", 500, "ok"),
                                  Ev("optionClick", 0, "timeout") >>,
               res |-> Err("Timeout") ]
        ELSE [ log |-> find \o << Ev("openDropdown", box, "ok"),
                                  Ev("waitForTimeout", 500, "ok"),
                                  Ev("optionClick", o, opts[o]) >>
                            \o WaitForSpinners(stuck),
               res |-> Ok("") ]

\* A result listed under the lookup contains the typed value, or does not.
ResultLists == UNION { [1..n -> BOOLEAN] : n \in 0..MaxResults }

\* A variant that takes the first result listed, whatever its text.
FirstResultListed(results) == IF Len(results) = 0 THEN 0 ELSE 1

FirstResult(results) ==
    LET M == { i \in 1..Len(results) : results[i] }
    IN  IF M = {} THEN 0 ELSE Min(M)

\* fillLookup: four selectors; when none is visible the input that follows
\* the label is taken, unprobed.  clear() rejects when the input chosen does
\* not resolve to an editable element.
FillLookup(stuck, vis, inputOk, results, clickOk) ==
    LET k    == FirstVisible(vis)
        find == ProbeLog(vis)
        r    == FirstResult(results)
    IN  IF ~inputOk
        THEN [ log |-> find \o << Ev("clear", k, "timeout") >>, res |-> Err("Timeout") ]
        ELSE IF r = 0
        THEN [ log |-> find \o << Ev("clear", k, "ok"), Ev("fill", k, "ok"),
                                  Ev("waitForTimeout", 1000, "ok"),
                                  Ev("resultWait", 0, "timeout") >>,
               res |-> Err("Timeout") ]
        ELSE IF ~clickOk
        THEN [ log |-> find \o << Ev("clear", k, "ok"), Ev("fill", k, "ok"),
                                  Ev("waitForTimeout", 1000, "ok"),
                                  Ev("resultWait", r, "visible"),
                                  Ev("resultClick", r, "timeout") >>,
               res |-> Err("Timeout") ]
        ELSE [ log |-> find \o << Ev("clear", k, "ok"), Ev("fill", k, "ok"),
                                  Ev("waitForTimeout", 1000, "ok"),
                                  Ev("resultWait", r, "visible"),
                                  Ev("resultClick", r, "ok") >>
                            \o WaitForSpinners(stuck),
               res |-> Ok("") ]

\* fillDateInput: the dedicated date input when it is visible (isVisible is
\* not guarded here), else fillTextInput.
FillDateInput(dateVis, dateFillOk, el, labelVis, labelClickOk) ==
    CASE dateVis = "error" ->
            [ log |-> << Ev("dateVisible", 0, dateVis) >>, res |-> Err("ProbeError") ]
      [] dateVis = "visible" /\ dateFillOk ->
            [ log |-> << Ev("dateVisible", 0, dateVis), Ev("clear", 0, "ok"),
                         Ev("fill", 0, "ok"), Ev("pressEscape", 0, "ok") >>,
              res |-> Ok("") ]
      [] dateVis = "visible" /\ ~dateFillOk ->
            [ log |-> << Ev("dateVisible", 0, dateVis), Ev("clear", 0, "timeout") >>,
              res |-> Err("Timeout") ]
      [] OTHER ->
            LET t == FillTextInput(el, labelVis, labelClickOk)
            IN  [ log |-> << Ev("dateVisible", 0, dateVis) >> \o t.log, res |-> t.res ]

FieldTypes == { "text", "currency", "combobox", "lookup", "date" }

\* fillField: waitForSpinners, then the helper of the field type.
FillField(fieldType, e) ==
    LET r == CASE fieldType \in { "text", "currency" } ->
                    FillTextInput(e.el, e.labelVis, e.labelClickOk)
               [] fieldType = "combobox" ->
                    FillCombobox(e.stuck, e.vis, e.formVis, e.openOk, e.opts)
               [] fieldType = "lookup" ->
                    FillLookup(e.stuck, e.vis, e.inputOk, e.results, e.clickOk)
               [] fieldType = "date" ->
                    FillDateInput(e.dateVis, e.dateFillOk, e.el, e.labelVis, e.labelClickOk)
    IN  [ log |-> WaitForSpinners(e.stuck) \o r.log, res |-> r.res ]

\* The page behaviours a fillTextInput call can meet.  Outcomes of calls the
\* code does not reach are fixed, so that each behaviour is listed once.
TextEnvs ==
    { e \in [ el : ElemVectors(NumTextSelectors), labelVis : ProbeOutcomes,
              labelClickOk : BOOLEAN ] :
        /\ FilledAt(e.el) # 0 => e.labelVis = "hidden"
        /\ e.labelVis # "visible" => e.labelClickOk }

ComboboxEnvs ==
    { e \in [ vis : ProbeVectors(NumComboboxSelectors), formVis : ProbeOutcomes,
              openOk : BOOLEAN, opts : OptionLists ] :
        /\ FirstVisible(e.vis) # 0 => e.formVis = "hidden"
        /\ (FirstVisible(e.vis) = 0 /\ e.formVis # "visible") => e.openOk
        /\ ~e.openOk => e.opts = << >> }

LookupEnvs ==
    { e \in [ vis : ProbeVectors(NumLookupSelectors), inputOk : BOOLEAN,
              results : ResultLists, clickOk : BOOLEAN ] :
        /\ ~e.inputOk => e.results = << >>
        /\ FirstResult(e.results) = 0 => e.clickOk }

DateEnvs ==
    { e \in [ dateVis : ProbeOutcomes, dateFillOk : BOOLEAN,
              el : ElemVectors(NumTextSelectors), labelVis : ProbeOutcomes,
              labelClickOk : BOOLEAN ] :
        /\ e.dateVis # "visible" => e.dateFillOk
        /\ e.dateVis # "hidden" =>
              (e.el = [ i \in 1..NumTextSelectors |-> "hidden" ] /\ e.labelVis = "hidden")
        /\ FilledAt(e.el) # 0 => e.labelVis = "hidden"
        /\ e.labelVis # "visible" => e.labelClickOk }

WithStuck(e, stuck) == [ x \in (DOMAIN e) \cup { "stuck" } |->
                            IF x = "stuck" THEN stuck ELSE e[x] ]

-----------------------------------------------------------------------------
(* waitForToast *)

Severities == { "success", "error", "warning", "info" }

\* getAttribute('class') of the element matched by '.slds-notify,
\* .forceToastMessage': the call rejects when the container holds no such
\* element; otherwise it yields a class string (never null: the element was
\* matched by one of its classes).  tokens are the severities s for which
\* the string contains typeMap[s].
StyleOutcomes ==
    [ kind : { "timeout" }, tokens : { {} } ]
        \cup [ kind : { "class" }, tokens : SUBSET Severities ]

\* A variant whose close click is not guarded by .catch(): a failed click
\* propagates.
WaitForToastCloseUncaught(containerVisible, msg, expectedType, style, closeOk) ==
    LET head == << Ev("toastWait", 0, "visible"), Ev("textContent", 0, "ok") >>
        close == << Ev("closeClick", 0, IF closeOk THEN "ok" ELSE "timeout") >>
        done == IF closeOk THEN Ok(TextOrEmpty(msg)) ELSE Err("Timeout")
    IN  IF ~containerVisible
        THEN [ log |-> << Ev("toastWait", 0, "timeout") >>, res |-> Err("Timeout") ]
        ELSE IF msg = "<timeout>"
        THEN [ log |-> << Ev("toastWait", 0, "visible"), Ev("textContent", 0, "timeout") >>,
               res |-> Err("Timeout") ]
        ELSE IF expectedType = "none"
        THEN [ log |-> head \o close, res |-> done ]
        ELSE IF style.kind = "timeout"
        THEN [ log |-> head \o << Ev("getAttribute", 0, "timeout") >>,
               res |-> Err("Timeout") ]
        ELSE IF expectedType \notin style.tokens
        THEN [ log |-> head \o << Ev("getAttribute", 0, "ok"),
                                  Ev("expectToContain", 0, "fail") >>,
               res |-> Err("SeverityMismatch") ]
        ELSE [ log |-> head \o << Ev("getAttribute", 0, "ok"),
                                  Ev("expectToContain", 0, "pass") >> \o close,
               res |-> done ]

\* waitForToast: wait for the container, read the text, check the class
\* string when a type is expected, click close (rejection swallowed), return
\* the text.
\* A variant that swallows the timeout of the wait for the banner and goes
\* on to the dismissal with an empty message.
WaitForToastEmptyOnTimeout(containerVisible, msg, expectedType, style, closeOk) ==
    IF ~containerVisible
    THEN [ log |-> << Ev("toastWait", 0, "timeout"),
                      Ev("closeClick", 0, IF closeOk THEN "ok" ELSE "timeout") >>,
           res |-> Ok("") ]
    ELSE WaitForToastCloseUncaught(containerVisible, msg, expectedType, style, TRUE)

WaitForToast(containerVisible, msg, expectedType, style, closeOk) ==
    LET head == << Ev("toastWait", 0, "visible"), Ev("textContent", 0, "ok") >>
        close == << Ev("closeClick", 0, IF closeOk THEN "ok" ELSE "timeout") >>
    IN  IF ~containerVisible
        THEN [ log |-> << Ev("toastWait", 0, "timeout") >>, res |-> Err("Timeout") ]
        ELSE IF msg = "<timeout>"
        THEN [ log |-> << Ev("toastWait", 0, "visible"), Ev("textContent", 0, "timeout") >>,
               res |-> Err("Timeout") ]
        ELSE IF expectedType = "none"
        THEN [ log |-> head \o close, res |-> Ok(TextOrEmpty(msg)) ]
        ELSE IF style.kind = "timeout"
        THEN [ log |-> head \o << Ev("getAttribute", 0, "timeout") >>,
               res |-> Err("Timeout") ]
        ELSE IF expectedType \notin style.tokens
        THEN [ log |-> head \o << Ev("getAttribute", 0, "ok"),
                                  Ev("expectToContain", 0, "fail") >>,
               res |-> Err("SeverityMismatch") ]
        ELSE [ log |-> head \o << Ev("getAttribute", 0, "ok"),
                                  Ev("expectToContain", 0, "pass") >> \o close,
               res |-> Ok(TextOrEmpty(msg)) ]

\* The banners a waitForToast call can meet: the severity the application
\* gave the banner, and what the page renders for it.
ToastEnvs ==
    { e \in [ containerVisible : BOOLEAN, severity : Severities, msg : MessageOutcomes,
              style : StyleOutcomes, closeOk : BOOLEAN ] :
        /\ ~e.containerVisible =>
              (e.msg = "<timeout>" /\ e.style.kind = "timeout" /\ e.closeOk
                  /\ e.severity = "success")
        /\ e.msg = "<timeout>" => (e.style.kind = "timeout" /\ e.closeOk) }

-----------------------------------------------------------------------------
(* SalesforceApiUtils: authenticate *)

Pages == { "p1", "p2" }

Tokens      == { "tokA", "tokB" }
TokenFields == { "<absent>", "" } \cup Tokens

ConfigInstanceUrl == "https://cfg.my.salesforce.com"

\* instanceUrl of the "sf org display" document.
CliUrlFields == { "<absent>", "", "https://instA", "https://instB" }

\* <serverUrl> of the SOAP login response.
SoapUrlFields == { "<absent>", "", "https://instA/services/Soap/u/60.0/00D",
                   "https://instB/services/Soap/u/60.0/00D" }

\* serverUrl.match(/(https:\/\/[^/]+)/): the origin, or no match.
InstanceMatch(serverUrl) ==
    CASE serverUrl = "https://instA/services/Soap/u/60.0/00D" -> "https://instA"
      [] serverUrl = "https://instB/services/Soap/u/60.0/00D" -> "https://instB"
      [] OTHER -> "<nomatch>"

\* What the external provider answers.  cli: execSync throws, or the output
\* holds no "{", or JSON.parse throws, or a document with result.accessToken
\* and result.instanceUrl.  soap: the request rejects, or a response text
\* with or without <sessionId> and <serverUrl> elements.
Responses(v) ==
    IF v = "cli"
    THEN [ kind : { "invocationFails", "noJson", "badJson" },
           token : { "<absent>" }, url : { "<absent>" } ]
            \cup [ kind : { "doc" }, token : TokenFields, url : CliUrlFields ]
    ELSE [ kind : { "invocationFails" }, token : { "<absent>" }, url : { "<absent>" } ]
            \cup [ kind : { "doc" }, token : TokenFields, url : SoapUrlFields ]

NoCred == [ accessToken |-> "", instanceUrl |-> "" ]

AuthOk(cred)  == [ ok |-> TRUE, err |-> "", cred |-> cred ]
AuthErr(e)    == [ ok |-> FALSE, err |-> e, cred |-> NoCred ]

\* authenticate() of the SF CLI revision.
AuthenticateCli(resp, cfg) ==
    CASE resp.kind = "invocationFails" -> AuthErr("ExecFailed")
      [] resp.kind = "noJson"          -> AuthErr("NoJson")
      [] resp.kind = "badJson"         -> AuthErr("JsonSyntax")
      [] OTHER ->
            IF resp.token \in { "<absent>", "" }
            THEN AuthErr("NoAccessToken")
            ELSE AuthOk([ accessToken |-> resp.token,
                          instanceUrl |-> IF resp.url \in { "<absent>", "" }
                                          THEN cfg.instanceUrl ELSE resp.url ])

\* authenticate() of the SOAP revision: both elements must match; the
\* capture (.*?) of <sessionId> may be empty.
AuthenticateSoap(resp, cfg) ==
    CASE resp.kind = "invocationFails" -> AuthErr("RequestFailed")
      [] OTHER ->
            IF resp.token = "<absent>" \/ resp.url = "<absent>"
            THEN AuthErr("SoapLoginFailed")
            ELSE AuthOk([ accessToken |-> resp.token,
                          instanceUrl |-> IF InstanceMatch(resp.url) = "<nomatch>"
                                          THEN cfg.instanceUrl
                                          ELSE InstanceMatch(resp.url) ])

Authenticate(v, resp, cfg) ==
    IF v = "cli" THEN AuthenticateCli(resp, cfg) ELSE AuthenticateSoap(resp, cfg)

-----------------------------------------------------------------------------
(* SalesforceApiUtils: loginViaFrontdoor, loginAsUser, restCall *)

Usernames == { "admin", "user1" }
Passwords == { "pwAdmin", "pwUser1" }

NoNav  == [ instanceUrl |-> "<none>", sid |-> "<none>" ]
NoSent == [ base |-> "<none>", bearer |-> "<none>" ]
NoResp == [ kind |-> "<none>", token |-> "<absent>", url |-> "<absent>" ]

IdleCall ==
    [ op |-> "none", pc |-> "idle",
      origUsername |-> "", origPassword |-> "",   \* locals of loginAsUser
      cred |-> NoCred,                            \* what authenticate() returned
      res |-> Ok(""),                             \* the outcome, once known
      \* the record of the call:
      before |-> [ username |-> "", password |-> "" ],  \* config when it began
      cacheBefore |-> NoCred,                     \* the instance fields when it began
      sentUser |-> "",                            \* username sent to the provider
      resp |-> NoResp,                            \* what the provider answered
      auth |-> "none",                            \* authenticate(): none, ok, failed
      invocations |-> 0,                          \* provider invocations
      nav |-> NoNav,                              \* page.goto target
      waited |-> FALSE,                           \* waitForPageLoad was called
      sent |-> NoSent ]                           \* request.fetch target

\* loginViaFrontdoor calls authenticate() unconditionally.
LoginNeedsAuthIfEmpty(cache) == cache.accessToken = ""

LoginNeedsAuth(cache) == TRUE

\* restCall: if (!this.accessToken) await this.authenticate()
RestNeedsAuth(cache) == cache.accessToken = ""

NeedsAuth(op, cache) ==
    IF op = "rest" THEN RestNeedsAuth(cache) ELSE LoginNeedsAuth(cache)

\* A rejection inside loginViaFrontdoor reaches the finally block of
\* loginAsUser; elsewhere it reaches the caller at once.
Raise(c, e) ==
    [ c EXCEPT !.res = Err(e),
               !.pc = IF c.op = "loginAs" THEN "finally" ELSE "done" ]

\* A variant that goes on after a failed authenticate().
AuthFailedIgnored(c, e) ==
    [ c EXCEPT !.auth = "failed", !.pc = IF c.op = "rest" THEN "fetch" ELSE "goto" ]

\* authenticate() threw: nothing was assigned; the error propagates.
AuthFailed(c, e) == Raise([ c EXCEPT !.auth = "failed" ], e)

\* authenticate() returned: the caller goes on to page.goto / request.fetch.
AuthSucceeded(c, cred) ==
    [ c EXCEPT !.auth = "ok", !.cred = cred,
               !.pc = IF c.op = "rest" THEN "fetch" ELSE "goto" ]

\* A variant that clears the instance fields when authenticate() fails.
CacheClearedOnFailure(cache, a) == IF a.ok THEN a.cred ELSE NoCred

\* The instance fields after authenticate(): assigned only on success.
CacheAfter(cache, a) == IF a.ok THEN a.cred ELSE cache

\* The provider has answered resp; authenticate() runs to its end.  cfg is
\* config.salesforce as it is then.
Authenticated(p, c, resp, cfg) ==
    LET a  == Authenticate(variant, resp, cfg)
        c1 == [ c EXCEPT !.resp = resp ]
    IN  /\ inst' = [ inst EXCEPT ![p] = CacheAfter(inst[p], a) ]
        /\ call' = [ call EXCEPT ![p] = IF a.ok THEN AuthSucceeded(c1, a.cred)
                                          ELSE AuthFailed(c1, a.err) ]

\* The synchronous head of loginViaFrontdoor and restCall, up to the first
\* suspension.  cli: execSync is synchronous, authenticate() completes here.
\* soap: the login envelope is built from config.salesforce and posted; the
\* response comes in a later step.  Without authenticate() the cached
\* fields are used.
Begin(p, c, cfg) ==
    IF NeedsAuth(c.op, inst[p])
    THEN IF variant = "cli"
         THEN \E resp \in Responses("cli") :
                Authenticated(p, [ c EXCEPT !.sentUser = "<cli>",
                                            !.invocations = c.invocations + 1 ],
                              resp, cfg)
         ELSE /\ call' = [ call EXCEPT ![p] =
                            [ c EXCEPT !.pc = "authPost", !.sentUser = cfg.username,
                                       !.invocations = c.invocations + 1 ] ]
              /\ UNCHANGED inst
    ELSE /\ call' = [ call EXCEPT ![p] =
                        [ c EXCEPT !.cred = inst[p],
                                   !.pc = IF c.op = "rest" THEN "fetch" ELSE "goto" ] ]
         /\ UNCHANGED inst

NewCall(p, op) ==
    [ IdleCall EXCEPT !.op = op, !.before = [ username |-> config.username,
                                              password |-> config.password ],
                      !.cacheBefore = inst[p] ]

LoginViaFrontdoor(p) ==
    /\ call[p].pc = "idle"
    /\ Begin(p, NewCall(p, "login"), config)
    /\ UNCHANGED << variant, config, dvars, org >>

\* loginAsUser: save, override, loginViaFrontdoor, restore in finally.  Only
\* the SOAP revision has it.
LoginAsUser(p) ==
    /\ variant = "soap"
    /\ call[p].pc = "idle"
    /\ \E u \in Usernames, pw \in Passwords :
         /\ config' = [ config EXCEPT !.username = u, !.password = pw ]
         /\ Begin(p, [ NewCall(p, "loginAs") EXCEPT !.origUsername = config.username,
                                                    !.origPassword = config.password ],
                  [ config EXCEPT !.username = u, !.password = pw ])
    /\ UNCHANGED << variant, dvars, org >>

RestCall(p) ==
    /\ call[p].pc = "idle"
    /\ Begin(p, NewCall(p, "rest"), config)
    /\ UNCHANGED << variant, config, dvars, org >>

\* soap: the login response arrives.
AuthResponse(p) ==
    /\ call[p].pc = "authPost"
    /\ \E resp \in Responses("soap") : Authenticated(p, call[p], resp, config)
    /\ UNCHANGED << variant, config, dvars, org >>

\* page.goto(`${instanceUrl}/secur/frontdoor.jsp?sid=${accessToken}`)
Goto(p) ==
    /\ call[p].pc = "goto"
    /\ \E ok \in BOOLEAN :
         LET c == [ call[p] EXCEPT !.nav = [ instanceUrl |-> call[p].cred.instanceUrl,
                                             sid |-> call[p].cred.accessToken ] ]
         IN  call' = [ call EXCEPT ![p] =
                        IF ok THEN [ c EXCEPT !.pc = "wait" ]
                        ELSE Raise(c, "NavigationFailed") ]
    /\ UNCHANGED << variant, config, inst, dvars, org >>

\* sfUtils.waitForPageLoad(): only the wait for domcontentloaded can reject.
WaitForPageLoadStep(p) ==
    /\ call[p].pc = "wait"
    /\ \E domLoaded \in BOOLEAN :
         LET c == [ call[p] EXCEPT !.waited = TRUE ]
         IN  call' = [ call EXCEPT ![p] =
                        IF ~domLoaded THEN Raise(c, "Timeout")
                        ELSE [ c EXCEPT !.res = Ok(""),
                                        !.pc = IF c.op = "loginAs" THEN "finally"
                                               ELSE "done" ] ]
    /\ UNCHANGED << variant, config, inst, dvars, org >>

\* request.fetch with the instance fields as they are now; !response.ok()
\* throws.
Fetch(p) ==
    /\ call[p].pc = "fetch"
    /\ \E ok \in BOOLEAN :
         LET c == [ call[p] EXCEPT !.sent = [ base |-> inst[p].instanceUrl,
                                              bearer |-> inst[p].accessToken ] ]
         IN  call' = [ call EXCEPT ![p] =
                        [ c EXCEPT !.res = IF ok THEN Ok("json") ELSE Err("ApiError"),
                                   !.pc = "done" ] ]
    /\ UNCHANGED << variant, config, inst, dvars, org >>

\* A variant that restores the credentials after the try block instead of
\* in a finally block.
FinallyOnSuccessOnly(p) ==
    /\ call[p].pc = "finally"
    /\ config' = IF call[p].res.status = "ok"
                 THEN [ config EXCEPT !.username = call[p].origUsername,
                                      !.password = call[p].origPassword ]
                 ELSE config
    /\ call' = [ call EXCEPT ![p].pc = "done" ]
    /\ UNCHANGED << variant, inst, dvars, org >>

\* finally { config.salesforce.username = originalUsername; ... }
Finally(p) ==
    /\ call[p].pc = "finally"
    /\ config' = [ config EXCEPT !.username = call[p].origUsername,
                                 !.password = call[p].origPassword ]
    /\ call' = [ call EXCEPT ![p].pc = "done" ]
    /\ UNCHANGED << variant, inst, dvars, org >>

\* The caller takes the outcome; the instance is free for its next call.
Returned(p) ==
    /\ call[p].pc = "done"
    /\ call' = [ call EXCEPT ![p] = IdleCall ]
    /\ UNCHANGED << variant, config, inst, dvars, org >>

\* An org without Account records, on which no call was made.
EmptyOrg == [ accounts |-> << >>, calls |-> << >> ]

SessionIdle ==
    /\ config = [ username |-> "admin", password |-> "pwAdmin",
                  instanceUrl |-> ConfigInstanceUrl ]
    /\ inst = [ p \in Pages |-> NoCred ]
    /\ call = [ p \in Pages |-> IdleCall ]

-----------------------------------------------------------------------------
-----------------------------------------------------------------------------
(* AccountPage.createAccountIfNotExists over the org's Account records *)

MaxAccounts == 2   \* Account records in the org before the first call
MaxCalls    == 2   \* calls of createAccountIfNotExists in a run

Names == { "A1", "B2" }

\* The Account records of an org: record number i (its Id) has the name
\* accounts[i].  Salesforce does not keep Account names unique.
AccountLists == UNION { [1..n -> Names] : n \in 0..MaxAccounts }

Existing(accounts, name) == { i \in 1..Len(accounts) : accounts[i] = name }

\* A variant that creates the account without looking for an existing one.
CreateAccountAlways(accounts, name, queryOk, pick, createOk) ==
    IF ~createOk
    THEN [ log |-> << Ev("create", 0, "error") >>, res |-> Err("ApiError"),
           accounts |-> accounts ]
    ELSE [ log |-> << Ev("create", Len(accounts) + 1, "ok") >>,
           res |-> Ok(Len(accounts) + 1), accounts |-> Append(accounts, name) ]

\* createAccountIfNotExists: the query SELECT Id FROM Account WHERE Name =
\* name LIMIT 1 (no ORDER BY: pick is the record the org returns, any of the
\* existing ones); when it returns a record, that Id; else createRecord and
\* the Id of the new record.  A failed request raises.
CreateAccountIfNotExists(accounts, name, queryOk, pick, createOk) ==
    IF ~queryOk
    THEN [ log |-> << Ev("query", 0, "error") >>, res |-> Err("ApiError"),
           accounts |-> accounts ]
    ELSE IF Existing(accounts, name) # {}
    THEN [ log |-> << Ev("query", pick, "found") >>, res |-> Ok(pick),
           accounts |-> accounts ]
    ELSE IF ~createOk
    THEN [ log |-> << Ev("query", 0, "none"), Ev("create", 0, "error") >>,
           res |-> Err("ApiError"), accounts |-> accounts ]
    ELSE [ log |-> << Ev("query", 0, "none"), Ev("create", Len(accounts) + 1, "ok") >>,
           res |-> Ok(Len(accounts) + 1), accounts |-> Append(accounts, name) ]

\* The requests a call can meet.  Outcomes of requests the code does not
\* reach are fixed.
AccountEnvs(accounts, name) ==
    { e \in [ queryOk : BOOLEAN, pick : Existing(accounts, name) \cup { 0 },
              createOk : BOOLEAN ] :
        /\ (e.queryOk /\ Existing(accounts, name) # {}) <=> e.pick # 0
        /\ (~e.queryOk \/ e.pick # 0) => e.createOk }

-----------------------------------------------------------------------------
(* OpportunityPage.createOpportunity *)

MaxOptional == 2    \* optional fields a call may carry, of the eight declared

\* The fields fillOpportunityForm fills, in the order of its statements: the
\* three required ones, then each optional one that data carries.
RequiredFields == << "Opportunity Name", "Close Date", "Stage" >>
OptionalFields == << "Account Name", "Amount", "Quantity", "Probability", "Type",
                     "Lead Source", "Description", "Next Step" >>

DataSets == SUBSET { OptionalFields[i] : i \in 1..MaxOptional }

RECURSIVE OptionalOf(_, _)
OptionalOf(data, i) ==
    IF i > Len(OptionalFields) THEN << >>
    ELSE (IF OptionalFields[i] \in data THEN << OptionalFields[i] >> ELSE << >>)
            \o OptionalOf(data, i + 1)

FieldsOf(data) == RequiredFields \o OptionalOf(data, 1)

\* The calls createOpportunity awaits, through openNewOpportunityModal and
\* fillOpportunityForm, in the order of the statements.
CallsOf(data) ==
    << [ev |-> "navigate", n |-> 0], [ev |-> "clickNewButton", n |-> 0],
       [ev |-> "modalWait", n |-> 0], [ev |-> "waitForSpinners", n |-> 0] >>
    \o [ k \in 1..Len(FieldsOf(data)) |-> [ev |-> "fillField", n |-> k] ]
    \o << [ev |-> "saveRecord", n |-> 0], [ev |-> "waitForToast", n |-> 0],
          [ev |-> "waitForSpinners", n |-> 0], [ev |-> "getCurrentRecordId", n |-> 0] >>

\* waitForSpinners and getCurrentRecordId never raise.
CanRaise(c) == c.ev \notin { "waitForSpinners", "getCurrentRecordId" }

ToastIndex(data) == Len(FieldsOf(data)) + 6

\* The calls up to call number last, the last one raising when raised.
CallLog(data, last, raised) ==
    [ i \in 1..last |->
        Ev(CallsOf(data)[i].ev, CallsOf(data)[i].n,
           IF raised /\ i = last THEN "raised" ELSE "ok") ]

\* A variant in which a failed waitForToast is swallowed and the record
\* identifier is read all the same.
CreateOpportunityToastOptional(data, failAt, err, toast, u) ==
    LET t == WaitForToast(toast.containerVisible, toast.msg, "success", toast.style,
                          toast.closeOk)
    IN  IF failAt # 0
        THEN [ log |-> CallLog(data, failAt, TRUE), res |-> Err(err) ]
        ELSE [ log |-> [ i \in 1..Len(CallsOf(data)) |->
                          Ev(CallsOf(data)[i].ev, CallsOf(data)[i].n,
                             IF i = ToastIndex(data) /\ t.res.status = "error"
                             THEN "raised" ELSE "ok") ],
               res |-> Ok(GetCurrentRecordId(u)) ]

\* createOpportunity: openNewOpportunityModal, fillOpportunityForm,
\* saveRecord, waitForToast('success'), waitForSpinners, getCurrentRecordId,
\* each awaited, none in a try block: the first call that raises ends the
\* operation with its error.  failAt is the call, before waitForToast, that
\* raises (0: none); toast is the banner waitForToast meets; u is the URL of
\* the page when the identifier is read.
CreateOpportunity(data, failAt, err, toast, u) ==
    LET t == WaitForToast(toast.containerVisible, toast.msg, "success", toast.style,
                          toast.closeOk)
    IN  IF failAt # 0
        THEN [ log |-> CallLog(data, failAt, TRUE), res |-> Err(err) ]
        ELSE IF t.res.status = "error"
        THEN [ log |-> CallLog(data, ToastIndex(data), TRUE), res |-> t.res ]
        ELSE [ log |-> CallLog(data, Len(CallsOf(data)), FALSE),
               res |-> Ok(GetCurrentRecordId(u)) ]

\* The URL of the list view: it holds no record id.
ListUrl == MkUrl(<< [len |-> ShortLen, alnum |-> TRUE] >>, FALSE)

\* The URLs of the page when the identifier is read: the list view still,
\* or one path segment (id-shaped or not) followed by a slash.
RecordUrls == { ListUrl } \cup { MkUrl(<< s >>, TRUE) : s \in SegSpecs }

\* What a createOpportunity call can meet.  Outcomes of calls the code does
\* not reach are fixed, so that each behaviour is listed once.
CreateEnvs(data) ==
    { e \in [ failAt : 0..(ToastIndex(data) - 1), err : { "Timeout", "FieldNotFound" },
              toast : ToastEnvs, u : RecordUrls ] :
        /\ e.failAt # 0 =>
              /\ CanRaise(CallsOf(data)[e.failAt])
              /\ e.err = "FieldNotFound" => CallsOf(data)[e.failAt].ev = "fillField"
              /\ e.toast = [ containerVisible |-> TRUE, severity |-> "success",
                             msg |-> "Record saved",
                             style |-> [ kind |-> "class", tokens |-> { "success" } ],
                             closeOk |-> TRUE ]
              /\ e.u = ListUrl
        /\ e.failAt = 0 =>
              /\ e.err = "Timeout"
              /\ WaitForToast(e.toast.containerVisible, e.toast.msg, "success",
                              e.toast.style, e.toast.closeOk).res.status = "error"
                    => e.u = ListUrl }

-----------------------------------------------------------------------------

(* The operations, one call on the page at a time *)

\* config.timeouts, and the actionTimeout and navigationTimeout that
\* playwright.config.ts takes from it.
NavigationMs  == 60000
ActionMs      == 30000
SpinnerWaitMs == 60000

\* A variant in which the spinner waits have no timeout.
TimeoutMsSpinnersUnbounded(ev) ==
    CASE ev \in { "domcontentloaded", "networkidle", "goto", "contentWait" } -> NavigationMs
      [] ev = "spinnerWait" -> 0
      [] OTHER -> ActionMs

\* The timeout of a call on the page, by the kind of the call: the load
\* states, page.goto and the content wait have the navigation timeout, a
\* spinner wait config.timeouts.spinnerWait, every other wait and action the
\* action timeout.  0 stands for no timeout.
TimeoutMs(ev) ==
    CASE ev \in { "domcontentloaded", "networkidle", "goto", "contentWait" } -> NavigationMs
      [] ev = "spinnerWait" -> SpinnerWaitMs
      [] OTHER -> ActionMs

\* The pending call e ends: the page gives what the call waits for, or the
\* page never does (the outcome is a timeout) and the call has a timeout.
Ends(e) == e.out # "timeout" \/ TimeoutMs(e.ev) > 0

\* loginViaFrontdoor as calls on the page: authenticate() (it returns a
\* credential or throws), page.goto, waitForPageLoad.
FrontdoorLogin(authOk, gotoOk, e) ==
    LET w == WaitForPageLoad(e.dom, e.net, e.stuck, e.content)
    IN  IF ~authOk
        THEN [ log |-> << Ev("authenticate", 0, "error") >>, res |-> Err("AuthFailed") ]
        ELSE IF ~gotoOk
        THEN [ log |-> << Ev("authenticate", 0, "ok"), Ev("goto", 0, "timeout") >>,
               res |-> Err("Timeout") ]
        ELSE [ log |-> << Ev("authenticate", 0, "ok"), Ev("goto", 0, "ok") >> \o w.log,
               res |-> w.res ]

\* The complete run of operation op on a page that behaves as env says.
OperationRun(op, env) ==
    CASE op = "waitForPageLoad" -> WaitForPageLoad(env.dom, env.net, env.stuck, env.content)
      [] op = "loginViaFrontdoor" -> FrontdoorLogin(env.authOk, env.gotoOk, env)
      [] op = "clickButton" -> ClickButton(env.stuck, env.vis, env.clickOk)
      [] op = "clickNewButton" -> ClickNewButton(env.stuck, env.clickOk, env.modal)
      [] op = "saveRecord" -> SaveRecord(env.stuck, env.clickOk)
      [] op = "fillField" -> FillField(env.fieldType, env)
      [] op = "getFieldValue" -> GetFieldValue(env.stuck, env.vis, env.text)
      [] op = "waitForToast" ->
            WaitForToast(env.containerVisible, env.msg, env.expectedType, env.style,
                         env.closeOk)
      [] op = "canEditRecord" -> CanEditRecord(env.stuck, env.vis[1])
      [] op = "isFieldEditable" -> IsFieldEditable(env.stuck, env.vis)

With(e, field, v) == [ x \in (DOMAIN e) \cup { field } |-> IF x = field THEN v ELSE e[x] ]

\* The page behaviours each operation can meet.
OperationEnvs(op) ==
    CASE op = "waitForPageLoad" -> PageLoadEnvs
      [] op = "loginViaFrontdoor" ->
            { With(With(e, "authOk", a), "gotoOk", g) :
                e \in PageLoadEnvs, a \in BOOLEAN, g \in BOOLEAN }
      [] op = "clickButton" ->
            [ stuck : SpinnerCases, vis : ProbeVectors(NumButtonSelectors),
              clickOk : BOOLEAN ]
      [] op = "clickNewButton" ->
            [ stuck : SpinnerCases, clickOk : BOOLEAN, modal : ContentOutcomes ]
      [] op = "saveRecord" -> [ stuck : SpinnerCases, clickOk : BOOLEAN ]
      [] op = "fillField" ->
            { With(With(e, "fieldType", t), "stuck", s) :
                e \in TextEnvs, t \in { "text", "currency" }, s \in SpinnerCases }
            \cup { With(With(e, "fieldType", "combobox"), "stuck", s) :
                e \in ComboboxEnvs, s \in SpinnerCases }
            \cup { With(With(e, "fieldType", "lookup"), "stuck", s) :
                e \in LookupEnvs, s \in SpinnerCases }
            \cup { With(With(e, "fieldType", "date"), "stuck", s) :
                e \in DateEnvs, s \in SpinnerCases }
      [] op = "getFieldValue" ->
            [ stuck : SpinnerCases, vis : ProbeVectors(NumValueSelectors),
              text : MessageOutcomes ]
      [] op = "waitForToast" ->
            { With(e, "expectedType", t) : e \in ToastEnvs, t \in Severities \cup { "none" } }
      [] op = "canEditRecord" -> [ stuck : SpinnerCases, vis : ProbeVectors(1) ]
      [] op = "isFieldEditable" ->
            [ stuck : SpinnerCases, vis : ProbeVectors(NumEditIndicators) ]

Operations ==
    { "waitForPageLoad", "loginViaFrontdoor", "clickButton", "clickNewButton",
      "saveRecord", "fillField", "getFieldValue", "waitForToast", "canEditRecord",
      "isFieldEditable" }

\* An operation is called: nothing has happened on the page yet.
StartOperation ==
    /\ dpc = "idle"
    /\ \E op \in Operations :
         \E env \in OperationEnvs(op) :
            /\ dpc' = "running"
            /\ dop' = op
            /\ denv' = env
            /\ dlog' = << >>
            /\ dres' = Ok("")
    /\ UNCHANGED << url, svars, org >>

\* The call the operation is suspended at ends, and the operation goes on to
\* its next call.
StepOperation ==
    /\ dpc = "running"
    /\ LET run == OperationRun(dop, denv).log
           j   == Len(dlog) + 1
       IN  /\ j <= Len(run)
           /\ Ends(run[j])
           /\ dlog' = Append(dlog, run[j])
    /\ UNCHANGED << dpc, dop, denv, dres, url, svars, org >>

\* The operation has made its last call: it returns or raises.
FinishOperation ==
    /\ dpc = "running"
    /\ dlog = OperationRun(dop, denv).log
    /\ dpc' = "done"
    /\ dres' = OperationRun(dop, denv).res
    /\ UNCHANGED << dop, denv, dlog, url, svars, org >>

(* Driver actions *)

DriverIdle ==
    /\ dpc = "idle"
    /\ dop = "none"
    /\ denv = NoEnv
    /\ dlog = << >>
    /\ dres = Ok("")

GetCurrentRecordIdCall ==
    /\ dpc = "idle"
    /\ dpc' = "done"
    /\ dop' = "getCurrentRecordId"
    /\ denv' = NoEnv
    /\ dlog' = << Ev("url", 0, "read") >>
    /\ dres' = Ok(GetCurrentRecordId(url))
    /\ UNCHANGED << url, svars, org >>

\* Which of the controls the selectors resolve to are enabled.  Only a
\* visible control is listed as disabled, so that each page is listed once.
EnabledVectors(vis) ==
    { en \in [1..Len(vis) -> BOOLEAN] : \A i \in 1..Len(vis) : ~en[i] => vis[i] = "visible" }

\* button.click() waits until the control is enabled: on a disabled control
\* it rejects when the action timeout has run out, the click not delivered.
ClickButtonCall ==
    /\ dpc = "idle"
    /\ \E stuck \in SpinnerCases, vis \in ProbeVectors(NumButtonSelectors),
          clickOk \in BOOLEAN :
         \E enabled \in EnabledVectors(vis) :
            LET k == FirstVisible(vis)
                r == ClickButton(stuck, vis, clickOk)
            IN  /\ (k # 0 /\ ~enabled[k]) => ~clickOk
                /\ dpc' = "done"
                /\ dop' = "clickButton"
                /\ denv' = [stuck |-> stuck, vis |-> vis, clickOk |-> clickOk,
                            enabled |-> enabled]
                /\ dlog' = r.log
                /\ dres' = r.res
    /\ UNCHANGED << url, svars, org >>

CanEditRecordCall ==
    /\ dpc = "idle"
    /\ \E stuck \in SpinnerCases, probe \in ProbeOutcomes :
         LET r == CanEditRecord(stuck, probe)
         IN  /\ dpc' = "done"
             /\ dop' = "canEditRecord"
             /\ denv' = [stuck |-> stuck, vis |-> << probe >>]
             /\ dlog' = r.log
             /\ dres' = r.res
    /\ UNCHANGED << url, svars, org >>

IsFieldEditableCall ==
    /\ dpc = "idle"
    /\ \E stuck \in SpinnerCases, vis \in ProbeVectors(NumEditIndicators) :
         LET r == IsFieldEditable(stuck, vis)
         IN  /\ dpc' = "done"
             /\ dop' = "isFieldEditable"
             /\ denv' = [stuck |-> stuck, vis |-> vis]
             /\ dlog' = r.log
             /\ dres' = r.res
    /\ UNCHANGED << url, svars, org >>

FillFieldCall ==
    /\ dpc = "idle"
    /\ \E stuck \in SpinnerCases, fieldType \in FieldTypes :
         \E e0 \in CASE fieldType \in { "text", "currency" } -> TextEnvs
                     [] fieldType = "combobox" -> ComboboxEnvs
                     [] fieldType = "lookup" -> LookupEnvs
                     [] fieldType = "date" -> DateEnvs :
            LET e == WithStuck(e0, stuck)
                r == FillField(fieldType, e)
            IN  /\ dpc' = "done"
                /\ dop' = "fillField"
                /\ denv' = WithStuck([ x \in (DOMAIN e0) \cup { "fieldType" } |->
                                IF x = "fieldType" THEN fieldType ELSE e0[x] ], stuck)
                /\ dlog' = r.log
                /\ dres' = r.res
    /\ UNCHANGED << url, svars, org >>

WaitForToastCall ==
    /\ dpc = "idle"
    /\ \E e \in ToastEnvs, expectedType \in Severities \cup { "none" } :
         LET r == WaitForToast(e.containerVisible, e.msg, expectedType, e.style, e.closeOk)
         IN  /\ dpc' = "done"
             /\ dop' = "waitForToast"
             /\ denv' = [ x \in (DOMAIN e) \cup { "expectedType" } |->
                            IF x = "expectedType" THEN expectedType ELSE e[x] ]
             /\ dlog' = r.log
             /\ dres' = r.res
    /\ UNCHANGED << url, svars, org >>

CreateAccountIfNotExistsCall ==
    /\ dpc = "idle"
    /\ Len(org.calls) < MaxCalls
    /\ \E name \in Names :
         \E e \in AccountEnvs(org.accounts, name) :
            LET r == CreateAccountIfNotExists(org.accounts, name, e.queryOk, e.pick,
                                              e.createOk)
            IN  /\ dpc' = "done"
                /\ dop' = "createAccountIfNotExists"
                /\ denv' = [ name |-> name, queryOk |-> e.queryOk, pick |-> e.pick,
                             createOk |-> e.createOk ]
                /\ dlog' = r.log
                /\ dres' = r.res
                /\ org' = [ accounts |-> r.accounts,
                            calls |-> Append(org.calls,
                                        [ name |-> name, before |-> org.accounts,
                                          log |-> r.log, res |-> r.res ]) ]
    /\ UNCHANGED << url, svars >>

WaitForPageLoadCall ==
    /\ dpc = "idle"
    /\ \E e \in PageLoadEnvs :
         LET r == WaitForPageLoad(e.dom, e.net, e.stuck, e.content)
         IN  /\ dpc' = "done"
             /\ dop' = "waitForPageLoad"
             /\ denv' = e
             /\ dlog' = r.log
             /\ dres' = r.res
    /\ UNCHANGED << url, svars, org >>

GetFieldValueCall ==
    /\ dpc = "idle"
    /\ \E stuck \in SpinnerCases, vis \in ProbeVectors(NumValueSelectors),
          text \in MessageOutcomes :
         LET r == GetFieldValue(stuck, vis, text)
         IN  /\ FirstVisible(vis) = 0 => text = "<null>"
             /\ dpc' = "done"
             /\ dop' = "getFieldValue"
             /\ denv' = [stuck |-> stuck, vis |-> vis, text |-> text]
             /\ dlog' = r.log
             /\ dres' = r.res
    /\ UNCHANGED << url, svars, org >>

ClickNewButtonCall ==
    /\ dpc = "idle"
    /\ \E stuck \in SpinnerCases, clickOk \in BOOLEAN, modal \in ContentOutcomes :
         LET r == ClickNewButton(stuck, clickOk, modal)
         IN  /\ ~clickOk => modal = "visible"
             /\ dpc' = "done"
             /\ dop' = "clickNewButton"
             /\ denv' = [stuck |-> stuck, clickOk |-> clickOk, modal |-> modal]
             /\ dlog' = r.log
             /\ dres' = r.res
    /\ UNCHANGED << url, svars, org >>

SaveRecordCall ==
    /\ dpc = "idle"
    /\ \E stuck \in SpinnerCases, clickOk \in BOOLEAN :
         LET r == SaveRecord(stuck, clickOk)
         IN  /\ dpc' = "done"
             /\ dop' = "saveRecord"
             /\ denv' = [stuck |-> stuck, clickOk |-> clickOk]
             /\ dlog' = r.log
             /\ dres' = r.res
    /\ UNCHANGED << url, svars, org >>

\* The caller takes the result; the driver keeps no state between calls.
\* createOpportunity as one call: the page shows e.u when the call ends.
CreateOpportunityCall ==
    /\ dpc = "idle"
    /\ \E data \in DataSets :
         \E e \in CreateEnvs(data) :
            LET r == CreateOpportunity(data, e.failAt, e.err, e.toast, e.u)
            IN  /\ dpc' = "done"
                /\ dop' = "createOpportunity"
                /\ denv' = [ data |-> data, failAt |-> e.failAt, err |-> e.err,
                             toast |-> e.toast, u |-> e.u ]
                /\ dlog' = r.log
                /\ dres' = r.res
                /\ url' = e.u
    /\ UNCHANGED << svars, org >>

Return ==
    /\ dpc = "done"
    /\ dpc' = "idle"
    /\ dop' = "none"
    /\ denv' = NoEnv
    /\ dlog' = << >>
    /\ dres' = Ok("")
    /\ UNCHANGED << url, svars, org >>

-----------------------------------------------------------------------------
(* Specification of the record-identifier extraction *)

InitUrl ==
    /\ DriverIdle
    /\ url \in Urls
    /\ variant = "soap"
    /\ SessionIdle
    /\ org = EmptyOrg

NextUrl == GetCurrentRecordIdCall \/ Return

SpecUrl == InitUrl /\ [][NextUrl]_vars

StartUrl == MkUrl(<< [len |-> ShortLen, alnum |-> TRUE] >>, FALSE)

InitDriver ==
    /\ DriverIdle
    /\ url = StartUrl
    /\ variant = "soap"
    /\ SessionIdle
    /\ org = EmptyOrg

(* Specification of one SalesforceApiUtils instance, in either revision *)
InitSession ==
    /\ DriverIdle
    /\ url = StartUrl
    /\ variant \in { "cli", "soap" }
    /\ SessionIdle
    /\ org = EmptyOrg

NextSession ==
    \/ LoginViaFrontdoor("p1")
    \/ LoginAsUser("p1")
    \/ RestCall("p1")
    \/ AuthResponse("p1")
    \/ Goto("p1")
    \/ WaitForPageLoadStep("p1")
    \/ Fetch("p1")
    \/ Finally("p1")
    \/ Returned("p1")

SpecSession == InitSession /\ [][NextSession]_vars

(* Specification of two pages driven concurrently, each with its own
   SalesforceApiUtils instance (SOAP revision), over the one config object.
   The calls are asynchronous functions of one JavaScript thread: a call
   runs from one await to the next without interruption, and calls of the
   two pages interleave at the awaits.  Each page logs in until it holds a
   session: a call begins on an instance without a cached credential. *)
NextPages ==
    \E p \in Pages :
        \/ inst[p] = NoCred /\ LoginViaFrontdoor(p)
        \/ inst[p] = NoCred /\ LoginAsUser(p)
        \/ AuthResponse(p)
        \/ Goto(p)
        \/ WaitForPageLoadStep(p)
        \/ Finally(p)
        \/ Returned(p)

SpecPages == InitDriver /\ [][NextPages]_vars

(* Specification of createAccountIfNotExists, called in sequence on one page *)
InitAccounts ==
    /\ DriverIdle
    /\ url = StartUrl
    /\ variant = "soap"
    /\ SessionIdle
    /\ org \in [ accounts : AccountLists, calls : { << >> } ]

NextAccounts == CreateAccountIfNotExistsCall \/ Return

SpecAccounts == InitAccounts /\ [][NextAccounts]_vars

(* Specification of the driver: every operation of SalesforceUtils that
   waits for, reads or changes the page, called in sequence on one page *)
NextDriver ==
    \/ WaitForPageLoadCall
    \/ ClickButtonCall
    \/ ClickNewButtonCall
    \/ SaveRecordCall
    \/ FillFieldCall
    \/ GetFieldValueCall
    \/ WaitForToastCall
    \/ CanEditRecordCall
    \/ IsFieldEditableCall
    \/ Return

SpecDriver == InitDriver /\ [][NextDriver]_vars

(* Specification of the driver with each operation taken call by call.  A
   pending call of an operation ends when the page gives what it waits for or
   when its timeout is over; the timers of the browser run, so a call that
   can end does end (weak fairness of StepOperation and FinishOperation). *)
NextTerm == StartOperation \/ StepOperation \/ FinishOperation \/ Return

SpecTerm ==
    /\ InitDriver
    /\ [][NextTerm]_vars
    /\ WF_vars(StepOperation)
    /\ WF_vars(FinishOperation)

(* Specification of createOpportunity *)
NextCreate == CreateOpportunityCall \/ Return
SpecCreate == InitDriver /\ [][NextCreate]_vars

(* Specification of clickButton *)
NextClick == ClickButtonCall \/ Return
SpecClick == InitDriver /\ [][NextClick]_vars

(* Specification of the non-throwing probes *)
NextProbe == CanEditRecordCall \/ IsFieldEditableCall \/ Return
SpecProbe == InitDriver /\ [][NextProbe]_vars

(* Specification of fillField *)
NextFill == FillFieldCall \/ Return
SpecFill == InitDriver /\ [][NextFill]_vars

(* Specification of waitForToast *)
NextToast == WaitForToastCall \/ Return
SpecToast == InitDriver /\ [][NextToast]_vars

-----------------------------------------------------------------------------
(* Properties *)

Done(op) == dpc = "done" /\ dop = op

NoneVisible == \A i \in 1..Len(denv.vis) : denv.vis[i] # "visible"

Clicks == { i \in 1..Len(dlog) : dlog[i].ev = "click" }

\* C3: clickButton on a label for which no selector has a visible match
\* raises the button-not-found error, and no click was made on the page.
C3_ClickRaisesButtonNotFound ==
    (Done("clickButton") /\ NoneVisible)
        => (dres = Err("ButtonNotFound") /\ Clicks = {})

\* C3 witness: clickButton has run on a page where no selector matched
\* (one of the probes rejected) and has raised.
C3_Witness ==
    /\ Done("clickButton")
    /\ NoneVisible
    /\ \E i \in 1..Len(denv.vis) : denv.vis[i] = "error"
    /\ dres.status = "error"

\* No selector of the operation resolves to a visible input control (for a
\* lookup: nor does the input that follows the label).
NoInputControl ==
    CASE denv.fieldType \in { "text", "currency" } ->
            \A i \in 1..Len(denv.el) : ProbeOf(denv.el[i]) # "visible"
      [] denv.fieldType = "date" ->
            /\ denv.dateVis # "visible"
            /\ \A i \in 1..Len(denv.el) : ProbeOf(denv.el[i]) # "visible"
      [] denv.fieldType = "combobox" ->
            /\ \A i \in 1..Len(denv.vis) : denv.vis[i] # "visible"
            /\ denv.formVis # "visible"
      [] denv.fieldType = "lookup" ->
            /\ \A i \in 1..Len(denv.vis) : denv.vis[i] # "visible"
            /\ ~denv.inputOk

\* C2 (as claimed): fillField, for every field type, on a label for which no
\* strategy yields a visible input control, raises; it never returns
\* successfully after typing into whatever has the focus or after doing
\* nothing.
C2_FillNeverSucceedsWithoutControl ==
    (Done("fillField") /\ NoInputControl) => dres.status = "error"

\* C4 (as claimed): waitForToast with an expected type, on a visible banner
\* of another severity, raises the severity mismatch and never returns the
\* message text, whatever classes the banner carries or lacks.
C4_MismatchRaises ==
    (/\ Done("waitForToast")
     /\ denv.containerVisible
     /\ denv.msg # "<timeout>"
     /\ denv.expectedType # "none"
     /\ denv.severity # denv.expectedType)
        => (dres.status = "error" /\ dres.value = "SeverityMismatch")

\* C5 (as claimed): for every URL with a path segment of 15 to 18
\* alphanumeric characters, getCurrentRecordId returns such a segment, also
\* when the segment is the last one and no slash follows it.
C5_ReturnsIdSegment ==
    (Done("getCurrentRecordId") /\ IdSegments(url) # {})
        => (dres.status = "ok" /\ dres.value \in IdSegments(url))

\* C6: for every URL with no path segment of 15 to 18 alphanumeric
\* characters (shorter, longer or with another character in it),
\* getCurrentRecordId returns the empty string and does not raise.
C6_NoIdSegmentReturnsEmpty ==
    (Done("getCurrentRecordId") /\ IdSegments(url) = {})
        => dres = Ok(<< >>)

\* C6 witness: the URL holds an alphanumeric segment longer than 18, followed
\* by a slash, and a segment with a non-alphanumeric character; the result
\* is empty.
C6_Witness ==
    /\ Done("getCurrentRecordId")
    /\ IdSegments(url) = {}
    /\ \E seg \in Segments(url) :
          Len(seg) > MaxIdLen /\ \A j \in 1..Len(seg) : IsAlnum(seg[j])
    /\ \E seg \in Segments(url) :
          Len(seg) = MinIdLen /\ \E j \in 1..Len(seg) : ~IsAlnum(seg[j])
    /\ url[Len(url)] = "/"
    /\ dres = Ok(<< >>)

\* C7: canEditRecord and isFieldEditable never raise; they return true
\* exactly when a probed control is visible, and false when it is absent or
\* the probe itself fails.
C7_ProbeNeverRaises ==
    (dpc = "done" /\ dop \in { "canEditRecord", "isFieldEditable" })
        => /\ dres.status = "ok"
           /\ dres.value = Bool(\E i \in 1..Len(denv.vis) : denv.vis[i] = "visible")

\* C7 witness: canEditRecord met a failing probe and returned false.
C7_Witness ==
    /\ Done("canEditRecord")
    /\ denv.vis[1] = "error"
    /\ dres = Ok("false")

-----------------------------------------------------------------------------
(* Properties of SalesforceApiUtils *)

Login(c) == c.op \in { "login", "loginAs" }

AuthErrors ==
    { "ExecFailed", "NoJson", "JsonSyntax", "NoAccessToken", "RequestFailed",
      "SoapLoginFailed" }

\* C1: when loginAsUser has returned or raised, config.salesforce holds the
\* username and the password it held when the call began.
C1_LoginAsRestoresConfig ==
    \A p \in Pages :
        (call[p].op = "loginAs" /\ call[p].pc = "done")
            => /\ config.username = call[p].before.username
               /\ config.password = call[p].before.password

\* C1 witness: loginAsUser for another user has raised (the navigation was
\* rejected) and is done.
C1_Witness ==
    /\ call["p1"].op = "loginAs"
    /\ call["p1"].pc = "done"
    /\ call["p1"].sentUser # call["p1"].before.username
    /\ call["p1"].res = Err("NavigationFailed")

\* The response carries no access token.
NoToken(resp) == resp.kind = "doc" /\ resp.token \in { "<absent>", "" }

\* The provider invocation failed, or its output cannot be parsed.
SourceFailed(resp) == resp.kind \in { "invocationFails", "noJson", "badJson" }

\* C8 (as claimed): authenticate fails with the no-token error when the
\* response carries no access token, and with a source error when the
\* invocation fails or the output cannot be parsed; in each case nothing is
\* returned and the instance fields are left as they were.
C8_AuthenticateFails ==
    \A p \in Pages :
        LET c == call[p]
        IN  /\ (c.resp.kind # "<none>" /\ NoToken(c.resp))
                  => /\ c.auth = "failed"
                     /\ c.res.status = "error"
                     /\ c.res.value \in { "NoAccessToken", "SoapLoginFailed" }
                     /\ c.cred = NoCred
                     /\ inst[p] = c.cacheBefore
            /\ (c.resp.kind # "<none>" /\ SourceFailed(c.resp))
                  => /\ c.auth = "failed"
                     /\ c.res.status = "error"
                     /\ c.res.value \in AuthErrors \ { "NoAccessToken" }
                     /\ c.cred = NoCred
                     /\ inst[p] = c.cacheBefore

-----------------------------------------------------------------------------
(* Properties of fillField on a field that is present *)

\* The field is visibly present under one of the selectors of its type and
\* answers the interaction: the input takes clear() and fill(); for a
\* combobox the dropdown opens and lists an option for the value; for a
\* lookup the search lists a result for the value and the result can be
\* clicked.
FieldPresent ==
    CASE denv.fieldType \in { "text", "currency" } ->
            \E i \in 1..Len(denv.el) : denv.el[i] = "visible"
      [] denv.fieldType = "date" ->
            \/ denv.dateVis = "visible" /\ denv.dateFillOk
            \/ denv.dateVis = "hidden" /\ \E i \in 1..Len(denv.el) : denv.el[i] = "visible"
      [] denv.fieldType = "combobox" ->
            /\ (\E i \in 1..Len(denv.vis) : denv.vis[i] = "visible")
                  \/ denv.formVis = "visible"
            /\ denv.openOk
            /\ FirstOption(denv.opts) # 0
      [] denv.fieldType = "lookup" ->
            /\ \E i \in 1..Len(denv.vis) : denv.vis[i] = "visible"
            /\ denv.inputOk
            /\ FirstResult(denv.results) # 0
            /\ denv.clickOk

\* The log holds the write into the field that was located: fill() on an
\* input that is visible, or the click on an option / a result.
WroteValue ==
    CASE denv.fieldType \in { "text", "currency" } ->
            \E j \in 1..Len(dlog) :
                /\ dlog[j] = Ev("fill", dlog[j].n, "ok")
                /\ dlog[j].n \in 1..Len(denv.el)
                /\ denv.el[dlog[j].n] = "visible"
      [] denv.fieldType = "date" ->
            \E j \in 1..Len(dlog) :
                /\ dlog[j] = Ev("fill", dlog[j].n, "ok")
                /\ IF denv.dateVis = "visible" THEN dlog[j].n = 0
                   ELSE dlog[j].n \in 1..Len(denv.el) /\ denv.el[dlog[j].n] = "visible"
      [] denv.fieldType = "combobox" ->
            \E j \in 1..Len(dlog) :
                /\ dlog[j].ev = "optionClick"
                /\ dlog[j].n = FirstOption(denv.opts)
                /\ \E i \in 1..(j - 1) :
                      /\ dlog[i].ev = "openDropdown" /\ dlog[i].out = "ok"
                      /\ \/ dlog[i].n \in 1..Len(denv.vis) /\ denv.vis[dlog[i].n] = "visible"
                         \/ dlog[i].n = FormElementSelector /\ denv.formVis = "visible"
      [] denv.fieldType = "lookup" ->
            /\ \E j \in 1..Len(dlog) :
                  /\ dlog[j] = Ev("fill", dlog[j].n, "ok")
                  /\ dlog[j].n \in 1..Len(denv.vis)
                  /\ denv.vis[dlog[j].n] = "visible"
            /\ \E j \in 1..Len(dlog) : dlog[j] = Ev("resultClick", dlog[j].n, "ok")

-----------------------------------------------------------------------------
(* Properties of waitForToast on a matching banner *)

\* The banner is visible, its message can be read, and either no type is
\* expected or the banner is of the expected severity and styled as such
\* (its class string carries the class of that severity).
MatchingBanner ==
    /\ denv.containerVisible
    /\ denv.msg # "<timeout>"
    /\ \/ denv.expectedType = "none"
       \/ /\ denv.severity = denv.expectedType
          /\ denv.style.kind = "class"
          /\ denv.expectedType \in denv.style.tokens

-----------------------------------------------------------------------------
(* Properties of two pages driven concurrently *)

\* config.salesforce.username as loaded from the environment.
EnvUsername == "admin"

\* C13 (as claimed): with two pages driven concurrently, no operation on one
\* page changes what credential acquisition on the other page reads: a
\* loginViaFrontdoor on a page sends the provider the configured user, also
\* while a loginAsUser is in progress on the other page.
C13_PagesShareNoState ==
    \A p \in Pages :
        (call[p].op = "login" /\ call[p].sentUser # "")
            => call[p].sentUser = EnvUsername

-----------------------------------------------------------------------------
(* Properties of createAccountIfNotExists *)

Creates(c) == { j \in 1..Len(c.log) : c.log[j].ev = "create" }

\* A call creates only when no account of the name exists; when one exists
\* it issues no create request and what it returns is the Id of an existing
\* account of that name.
CreatesOnlyWhenAbsent(c) ==
    /\ Creates(c) # {} => Existing(c.before, c.name) = {}
    /\ Existing(c.before, c.name) # {} =>
          /\ Creates(c) = {}
          /\ c.res.status = "ok" => c.res.value \in Existing(c.before, c.name)

\* The accounts created by the calls made so far.
CreatedByCalls ==
    { k \in 1..Len(org.calls) :
        \E j \in Creates(org.calls[k]) : org.calls[k].log[j].out = "ok" }

\* Calls k and k + 1 are for the same name and both returned.
TwiceInSequence(k) ==
    /\ k + 1 <= Len(org.calls)
    /\ org.calls[k].name = org.calls[k + 1].name
    /\ org.calls[k].res.status = "ok"
    /\ org.calls[k + 1].res.status = "ok"

\* C15 (as claimed): createAccountIfNotExists creates only when no account
\* of the name exists, else returns the existing account's Id without a
\* create request; two calls in sequence for one name return the same Id
\* and create at most one account.
C15_CreateOnceSameId ==
    /\ \A k \in 1..Len(org.calls) : CreatesOnlyWhenAbsent(org.calls[k])
    /\ \A k \in 1..Len(org.calls) :
          TwiceInSequence(k)
              => /\ org.calls[k].res.value = org.calls[k + 1].res.value
                 /\ Cardinality(CreatedByCalls \cap { k, k + 1 }) <= 1

\* C15 (amended): as above, the two calls returning the same Id when at most
\* one account of the name existed before the first of them.
C15_CreateOnceSameIdIfUnique ==
    /\ \A k \in 1..Len(org.calls) : CreatesOnlyWhenAbsent(org.calls[k])
    /\ \A k \in 1..Len(org.calls) :
          TwiceInSequence(k)
              => /\ Cardinality(Existing(org.calls[k].before, org.calls[k].name)) <= 1
                      => org.calls[k].res.value = org.calls[k + 1].res.value
                 /\ Cardinality(CreatedByCalls \cap { k, k + 1 }) <= 1

\* C15 witness: two calls in sequence for a name the org did not hold; the
\* first created the account, the second found it and returned its Id.
C15_Witness ==
    /\ Done("createAccountIfNotExists")
    /\ TwiceInSequence(1)
    /\ Existing(org.calls[1].before, org.calls[1].name) = {}
    /\ CreatedByCalls = { 1 }
    /\ org.calls[2].log = << Ev("query", org.calls[1].res.value, "found") >>
    /\ dres = org.calls[1].res

-----------------------------------------------------------------------------
(* Properties of waitForPageLoad *)

\* The phase a call on the page belongs to: 1 DOM loaded, 2 network
\* settling, 3 spinner clearing, 4 main content (the last wait before the
\* page is taken as stable).
PhaseOf(e) ==
    CASE e.ev = "domcontentloaded" -> 1
      [] e.ev = "networkidle"      -> 2
      [] e.ev = "spinnerWait"      -> 3
      [] e.ev = "contentWait"      -> 4
      [] OTHER                     -> 0

PhasesIn(log) == { PhaseOf(log[j]) : j \in 1..Len(log) }

\* C16: waitForPageLoad goes through its phases in the order DOM loaded,
\* network settling, spinner clearing, stable: the waits of the log are in
\* that order and never go back, a phase is in the log only with every
\* earlier phase before it, each wait is made once, and a call that returns
\* has made all of them, the six spinner waits in selector order.
C16_PhasesInOrder ==
    Done("waitForPageLoad")
        => /\ \A j \in 1..Len(dlog) : PhaseOf(dlog[j]) # 0
           /\ \A i, j \in 1..Len(dlog) : i < j => PhaseOf(dlog[i]) <= PhaseOf(dlog[j])
           /\ \A ph \in PhasesIn(dlog) : \A q \in 1..ph : q \in PhasesIn(dlog)
           /\ \A ph \in { 1, 2, 4 } :
                 Cardinality({ j \in 1..Len(dlog) : PhaseOf(dlog[j]) = ph }) <= 1
           /\ dres.status = "ok"
                 => /\ PhasesIn(dlog) = 1..4
                    /\ \A i \in 1..NumSpinnerSelectors : dlog[2 + i].ev = "spinnerWait"
                                                         /\ dlog[2 + i].n = i
                    /\ Len(dlog) = NumSpinnerSelectors + 3

\* C16 witness: a waitForPageLoad whose network never became idle and one of
\* whose spinners never disappeared has gone through all its phases.
C16_Witness ==
    /\ Done("waitForPageLoad")
    /\ denv.net = "timeout"
    /\ denv.stuck # {}
    /\ PhasesIn(dlog) = 1..4
    /\ dlog[Len(dlog)].ev = "contentWait"

\* C17: the best-effort waits of waitForPageLoad do not propagate a timeout:
\* once the DOM is loaded the call returns normally, whether the network
\* becomes idle or not, whether a spinner stays or not and whether the main
\* content shows or not; a spinner that is absent or goes makes its wait end
\* as hidden, one that stays makes it end at its timeout; the call raises
\* only when the wait for the DOM times out.
C17_BestEffortWaitsSwallowed ==
    Done("waitForPageLoad")
        => /\ denv.dom = "loaded" => dres = Ok("")
           /\ dres.status = "error" => (denv.dom = "timeout" /\ dres = Err("Timeout"))
           /\ denv.dom = "loaded" =>
                 /\ Ev("networkidle", 0, denv.net) \in { dlog[j] : j \in 1..Len(dlog) }
                 /\ \A i \in 1..NumSpinnerSelectors :
                       Ev("spinnerWait", i, IF i \in denv.stuck THEN "timeout" ELSE "hidden")
                           \in { dlog[j] : j \in 1..Len(dlog) }

\* C17 witness: the network never became idle, a spinner never disappeared,
\* the main content never showed, and waitForPageLoad returned normally.
C17_Witness ==
    /\ Done("waitForPageLoad")
    /\ denv.dom = "loaded"
    /\ denv.net = "timeout"
    /\ denv.stuck # {}
    /\ denv.content = "timeout"
    /\ dres = Ok("")

-----------------------------------------------------------------------------
(* Properties of the order of the calls an operation makes on the page *)

\* The operations that read or change the page.
PageOperations ==
    { "clickButton", "clickNewButton", "saveRecord", "fillField", "getFieldValue",
      "waitForToast", "canEditRecord", "isFieldEditable" }

\* The log begins with the spinner waits, one per selector, in order.
BeginsWithSpinnerWaits(log) ==
    /\ Len(log) >= NumSpinnerSelectors
    /\ \A i \in 1..NumSpinnerSelectors : log[i].ev = "spinnerWait" /\ log[i].n = i

\* C18 (as claimed): every operation that reads or changes the page
\* (clickButton, clickNewButton, saveRecord, fillField, getFieldValue,
\* waitForToast, canEditRecord, isFieldEditable) waits for the page to be
\* stable, each spinner gone or its timeout over, before its first read of
\* or action on the page.
C18_StabilityWaitFirst ==
    (dpc = "done" /\ dop \in PageOperations) => BeginsWithSpinnerWaits(dlog)


\* The calls of the log that act on a located element.
ActsOnElement(e) == e.ev \in { "click", "clear", "fill", "textContent", "openDropdown" }

LocateOperations == { "clickButton", "fillField", "getFieldValue" }

\* C19 (as claimed): an operation that locates an element acts on one
\* element only, the match of the first selector, in declaration order,
\* whose probe finds a visible element: no selector after it is probed, and
\* every call that acts on an element acts on that match.
C19_FirstVisibleOnly ==
    (dpc = "done" /\ dop \in LocateOperations)
        => \A j \in 1..Len(dlog) :
              (dlog[j].ev = "isVisible" /\ dlog[j].out = "visible")
                  => /\ \A i \in 1..(j - 1) :
                          dlog[i].ev = "isVisible" => dlog[i].out # "visible"
                     /\ \A i \in (j + 1)..Len(dlog) : dlog[i].ev # "isVisible"
                     /\ \A i \in 1..Len(dlog) :
                          ActsOnElement(dlog[i]) => dlog[i].n = dlog[j].n

\* The selectors an operation probes before it gives up.
StrategiesOf(op, env) ==
    CASE op = "clickButton"   -> 1..NumButtonSelectors
      [] op = "getFieldValue" -> 1..NumValueSelectors
      [] op = "fillField" ->
            IF env.fieldType = "combobox"
            THEN (1..NumComboboxSelectors) \cup { FormElementSelector }
            ELSE 1..NumTextSelectors
      [] OTHER -> {}

ProbesOf(log, n) == { j \in 1..Len(log) : log[j].ev = "isVisible" /\ log[j].n = n }

NotFoundErrors == { "FieldNotFound", "ButtonNotFound", "FieldValueNotFound" }

\* C20 (as claimed): the not-found errors are raised only after every
\* selector of the operation has been probed and found without a visible
\* match, and no selector is probed more than once in a call.
C20_NotFoundAfterAllProbed ==
    (dpc = "done" /\ dop \in LocateOperations)
        => /\ \A n \in StrategiesOf(dop, denv) : Cardinality(ProbesOf(dlog, n)) <= 1
           /\ (dres.status = "error" /\ dres.value \in NotFoundErrors)
                 => \A n \in StrategiesOf(dop, denv) :
                       /\ Cardinality(ProbesOf(dlog, n)) = 1
                       /\ \A j \in ProbesOf(dlog, n) : dlog[j].out # "visible"

-----------------------------------------------------------------------------
(* Termination *)

\* C14: every operation of the driver that has been called terminates, by
\* returning or by raising, on every page behaviour: also when spinners
\* never disappear, the network never becomes idle and no element the
\* operation looks for ever appears.
C14_OperationsTerminate == (dpc = "running") ~> (dpc = "done")

\* C14 witness: a loginViaFrontdoor on a page whose network never became
\* idle, with a spinner that never disappeared and a main content area that
\* never showed, has come to its end.
C14_Witness ==
    /\ Done("loginViaFrontdoor")
    /\ denv.net = "timeout"
    /\ denv.stuck # {}
    /\ denv.content = "timeout"
    /\ Len(dlog) = NumSpinnerSelectors + 5

-----------------------------------------------------------------------------
(* Properties of the option and result selection *)

\* C21: fillField on a combobox opens the dropdown, waits the settle delay
\* and then selects an option whose text or data-value is the requested
\* value exactly: an option whose text only contains the value is never
\* selected, whether an exact option is listed or not.
C21_ExactOptionOnly ==
    (Done("fillField") /\ denv.fieldType = "combobox") =>
        \A j \in 1..Len(dlog) :
            dlog[j].ev = "optionClick" /\ dlog[j].out # "timeout" =>
                /\ dlog[j].out = "exact"
                /\ j > 2
                /\ dlog[j - 2] = Ev("openDropdown", dlog[j - 2].n, "ok")
                /\ dlog[j - 1] = Ev("waitForTimeout", 500, "ok")

ResultClicks == { j \in 1..Len(dlog) : dlog[j].ev = "resultClick" }

-----------------------------------------------------------------------------
(* Properties of getFieldValue *)

VisibleSelectors == { i \in 1..Len(denv.vis) : denv.vis[i] = "visible" }

TextReads == { j \in 1..Len(dlog) : dlog[j].ev = "textContent" }

\* C23: getFieldValue reads the element of the earliest selector, in the
\* order of declaration, that is visible, and returns its text; it raises
\* FieldValueNotFound when no selector has a visible match, and returns
\* nothing (no empty default) in that case.
C23_ValueOfEarliestVisible ==
    Done("getFieldValue") =>
        /\ \A j \in TextReads : dlog[j].n = Min(VisibleSelectors)
        /\ (VisibleSelectors # {} /\ denv.text # "<timeout>") =>
              /\ dres = Ok(TextOrEmpty(denv.text))
              /\ TextReads # {}
        /\ VisibleSelectors = {} =>
              (dres = Err("FieldValueNotFound") /\ TextReads = {})
        /\ dres.status = "ok" => VisibleSelectors # {}

\* C23 witness: the first selector was hidden, the probe of the second
\* rejected, the third and the fourth were visible; the text of the third
\* was returned.
C23_Witness ==
    /\ Done("getFieldValue")
    /\ denv.vis[1] = "hidden"
    /\ denv.vis[2] = "error"
    /\ denv.vis[3] = "visible"
    /\ denv.vis[4] = "visible"
    /\ denv.text = "Record saved"
    /\ \E j \in TextReads : dlog[j] = Ev("textContent", 3, "ok")
    /\ dres = Ok("Record saved")

-----------------------------------------------------------------------------
(* Properties of waitForToast when no banner shows *)

\* C24: when no banner becomes visible within the wait, waitForToast raises
\* a timeout error, which is not the severity-mismatch error; it returns no
\* message, and it neither reads the banner, nor checks its severity, nor
\* clicks its close button.
C24_NoBannerRaisesTimeout ==
    (Done("waitForToast") /\ ~denv.containerVisible) =>
        /\ dres = Err("Timeout")
        /\ dres # Err("SeverityMismatch")
        /\ dlog = << Ev("toastWait", 0, "timeout") >>

\* C24 witness: a success banner was expected and none showed; the call
\* raised the timeout error.
C24_Witness ==
    /\ Done("waitForToast")
    /\ ~denv.containerVisible
    /\ denv.expectedType = "success"
    /\ dres = Err("Timeout")
    /\ \A j \in 1..Len(dlog) :
          dlog[j].ev \notin { "getAttribute", "expectToContain", "closeClick" }

-----------------------------------------------------------------------------
(* Properties of clickButton on disabled controls *)

\* The selectors whose control is visible and enabled.
VisibleEnabled ==
    { i \in 1..Len(denv.vis) : denv.vis[i] = "visible" /\ denv.enabled[i] }

\* C25: the control clickButton clicks is the first, in the order of the
\* selectors, that is visible and enabled: a visible disabled control of an
\* earlier selector is passed over for the visible enabled control of a
\* later one, and no click is delivered to a disabled control.
C25_ClicksFirstVisibleEnabled ==
    Done("clickButton") =>
        /\ VisibleEnabled # {} =>
              \E j \in Clicks : dlog[j].n = Min(VisibleEnabled)
        /\ \A j \in Clicks : dlog[j].out = "ok" => denv.enabled[dlog[j].n]

-----------------------------------------------------------------------------
(* Properties of the date kind *)

\* C26: whenever fillField has filled a field of the date kind, by whichever
\* path the field was resolved (the dedicated date input, or the text
\* selectors when the date input is not visible), the fill is followed by
\* the key press that dismisses the date picker.
C26_DateFillThenDismiss ==
    (Done("fillField") /\ denv.fieldType = "date" /\ dres.status = "ok") =>
        \E j \in 1..Len(dlog) :
            /\ dlog[j].ev \in { "fill", "keyboardType" }
            /\ dlog[j].out = "ok"
            /\ \E i \in (j + 1)..Len(dlog) : dlog[i] = Ev("pressEscape", 0, "ok")

-----------------------------------------------------------------------------
(* Properties of concurrent loginAsUser calls *)

EnvPassword == "pwAdmin"

\* C27: whenever no call is in progress on any page (each call made so far
\* has returned or raised), config.salesforce holds the username and the
\* password it held before the first call, whatever the interleaving of the
\* loginAsUser calls of the two pages.
C27_ConfigRestoredAfterBoth ==
    (\A p \in Pages : call[p].pc \in { "idle", "done" }) =>
        /\ config.username = EnvUsername
        /\ config.password = EnvPassword

-----------------------------------------------------------------------------
(* Properties of the cached credential *)

\* The instance URL a provider response itself carries: the instanceUrl
\* field of the CLI document, the origin of <serverUrl> of the SOAP response.
ResponseUrl(resp) ==
    IF variant = "cli" THEN resp.url ELSE InstanceMatch(resp.url)

CarriesUrl(resp) == ResponseUrl(resp) \notin { "<absent>", "", "<nomatch>" }

\* C28 (as claimed): a failed authenticate leaves the instance fields as they
\* were, and a successful one sets both from its response: the cached token
\* and instance URL are both empty, or both are taken from the most recent
\* successful response.
C28_CachedPairFromOneResponse ==
    \A p \in Pages :
        LET c == call[p]
        IN  /\ (c.op # "none" /\ c.auth # "ok") => inst[p] = c.cacheBefore
            /\ c.auth = "ok" =>
                  inst[p] = [ accessToken |-> c.resp.token,
                              instanceUrl |-> ResponseUrl(c.resp) ]

\* C28 (amended): a failed authenticate leaves the instance fields as they
\* were; a successful one replaces both at once: the token by the token of
\* its response, the instance URL by the URL of the same response or, when
\* the response carries none, by the configured instance URL.
C28_CachedPairReplacedTogether ==
    \A p \in Pages :
        LET c == call[p]
        IN  /\ (c.op # "none" /\ c.auth # "ok") => inst[p] = c.cacheBefore
            /\ c.auth = "ok" =>
                  inst[p] = [ accessToken |-> c.resp.token,
                              instanceUrl |-> IF CarriesUrl(c.resp)
                                              THEN ResponseUrl(c.resp)
                                              ELSE config.instanceUrl ]

\* C28 witness: on an instance holding the pair of one response a later
\* authenticate has failed and the pair is still cached.
C28_Witness ==
    /\ call["p1"].cacheBefore = [ accessToken |-> "tokA", instanceUrl |-> "https://instA" ]
    /\ call["p1"].auth = "failed"
    /\ call["p1"].resp.token = "tokB"
    /\ inst["p1"] = [ accessToken |-> "tokA", instanceUrl |-> "https://instA" ]

-----------------------------------------------------------------------------
(* Properties of restCall *)

\* C29: a restCall invokes the provider only when the instance holds no
\* access token; with a token cached it does not invoke it and sends its
\* request with the cached token and instance URL; when authenticate fails
\* it raises and sends no request.  Every request that is sent carries an
\* access token.
C29_RestAcquiresOnlyWithoutToken ==
    \A p \in Pages :
        LET c == call[p]
        IN  c.op = "rest" =>
                /\ c.invocations > 0 => c.cacheBefore.accessToken = ""
                /\ c.cacheBefore.accessToken # "" =>
                      /\ c.invocations = 0
                      /\ c.sent # NoSent =>
                            c.sent = [ base |-> c.cacheBefore.instanceUrl,
                                       bearer |-> c.cacheBefore.accessToken ]
                /\ c.auth = "failed" =>
                      (c.sent = NoSent /\ c.res.status = "error" /\ c.pc = "done")
                /\ c.sent # NoSent => c.sent.bearer # ""

-----------------------------------------------------------------------------
(* Properties of createOpportunity *)

\* The step of createOpportunity a call belongs to: 1 open the new-record
\* form, 2 fill the fields, 3 save, 4 capture the notification, 5 read the
\* record identifier.
StepOf(j) ==
    CASE dlog[j].ev \in { "navigate", "clickNewButton", "modalWait" } -> 1
      [] dlog[j].ev = "fillField" -> 2
      [] dlog[j].ev = "saveRecord" -> 3
      [] dlog[j].ev = "waitForToast" -> 4
      [] dlog[j].ev = "getCurrentRecordId" -> 5
      [] OTHER -> IF \E i \in 1..(j - 1) : dlog[i].ev = "waitForToast" THEN 5 ELSE 2

\* C30: createOpportunity goes through its steps in the order open, fill,
\* save, capture the success notification, read the identifier, each step
\* begun only when the one before it is complete; it returns an identifier
\* only when waitForToast('success') has returned; and a call that raises is
\* the last call made, its error the outcome of the operation.
C30_CreateStepsInOrder ==
    Done("createOpportunity") =>
        /\ \A i, j \in 1..Len(dlog) : i < j => StepOf(i) <= StepOf(j)
        /\ \A j \in 1..Len(dlog) :
              /\ StepOf(j) > 1 => \E i \in 1..(j - 1) : dlog[i] = Ev("modalWait", 0, "ok")
              /\ StepOf(j) > 2 =>
                    \A k \in 1..Len(FieldsOf(denv.data)) :
                        \E i \in 1..(j - 1) : dlog[i] = Ev("fillField", k, "ok")
              /\ StepOf(j) > 3 => \E i \in 1..(j - 1) : dlog[i] = Ev("saveRecord", 0, "ok")
              /\ StepOf(j) > 4 => \E i \in 1..(j - 1) : dlog[i] = Ev("waitForToast", 0, "ok")
        /\ dres.status = "ok" =>
              /\ \E i \in 1..Len(dlog) : dlog[i] = Ev("waitForToast", 0, "ok")
              /\ denv.toast.containerVisible
              /\ "success" \in denv.toast.style.tokens
              /\ dlog[Len(dlog)] = Ev("getCurrentRecordId", 0, "ok")
              /\ dres.value = GetCurrentRecordId(url)
        /\ \A j \in 1..Len(dlog) :
              dlog[j].out = "raised" => (j = Len(dlog) /\ dres.status = "error")

\* C30 witness: with one optional field, the fourth fillField raised
\* FieldNotFound: nothing was saved, no notification awaited, no identifier
\* read.
C30_Witness ==
    /\ Done("createOpportunity")
    /\ denv.data = { "Amount" }
    /\ dlog[Len(dlog)] = Ev("fillField", 4, "raised")
    /\ dres = Err("FieldNotFound")
    /\ \A j \in 1..Len(dlog) :
          dlog[j].ev \notin { "saveRecord", "waitForToast", "getCurrentRecordId" }

=============================================================================
